---- MODULE Spec2Model ----
(***************************************************************************)
(* A model of the ply-rs reader: the header assembler (__read_header), the *)
(* payload dispatcher (__read_payload), the ascii and the binary element   *)
(* decoders, as one state machine that performs read_ply step by step.     *)
(*                                                                         *)
(* Text is modelled as a sequence of lexemes.  A lexeme is one character   *)
(* of a name or a number (a letter, a digit, a sign, the dot), the blank   *)
(* " ", or a whole keyword of the header grammar ("ply", "element", ...).  *)
(* A line of the source is a text without its line terminator.             *)
(***************************************************************************)
EXTENDS Integers, Sequences, FiniteSets, TLC

VARIABLES
    source,            \* the input: [lines, bytes], see ReadLine / ReadBytes
    given,             \* how the input was produced (history, never read by the parser)
    pos,               \* number of lines of source.lines consumed so far
    bpos,              \* number of bytes of source.bytes consumed so far
    location,          \* LocationTracker.line_index
    pc,                \* "magic", "readlines", "payload", "element", "done", "failed"
    header_form_ver,   \* Option<(Encoding, Version)> of __read_header
    header_obj_infos,  \* Vec<ObjInfo> of __read_header
    header_elements,   \* Vec<ElementDef> of __read_header
    header_comments,   \* Vec<Comment> of __read_header
    header,            \* the Header __read_header returned (NoHeader before)
    elem_idx,          \* index into header.elements of the element being decoded
    elems,             \* Vec<E> of read_*_payload_for_element
    payload,           \* Payload of __read_payload: element name -> Vec<E>
    payload_keys,      \* the keys of the Payload in the order of their insertion
    client,            \* the program that calls the Parser: [mode, full, vecs]
    result             \* what read_ply returned: [status, msg, line]

vars == << source, given, client, payload_keys, pos, bpos, location, pc, header_form_ver,
           header_obj_infos, header_elements, header_comments, header,
           elem_idx, elems, payload, result >>

-----------------------------------------------------------------------------
(* Bounds of the model.                                                    *)

\* longest run of free header statements between "ply" and the last line
MaxHeaderLines == 3
\* largest declared count of the elements whose records are enumerated
MaxCount == 2

-----------------------------------------------------------------------------
(* Lexemes and small helpers.                                              *)

SP == " "
TAB == "\t"
Space == {SP, TAB}

Digit == << "0", "1", "2", "3", "4", "5", "6", "7", "8", "9" >>
Digits == {Digit[i] : i \in 1..10}
DigitVal(c) == (CHOOSE i \in 1..10 : Digit[i] = c) - 1

Range(s) == {s[i] : i \in 1..Len(s)}

RECURSIVE Concat(_)
Concat(ss) == IF ss = << >> THEN << >> ELSE Head(ss) \o Concat(Tail(ss))

\* words joined by one blank
RECURSIVE Join(_)
Join(ws) ==
    IF ws = << >> THEN << >>
    ELSE IF Len(ws) = 1 THEN ws[1]
    ELSE ws[1] \o << SP >> \o Join(Tail(ws))

-----------------------------------------------------------------------------
(* The data structures of the ply module.                                  *)

ScalarType == {"Char", "UChar", "Short", "UShort", "Int", "UInt", "Float", "Double"}
Encoding == {"Ascii", "BinaryBigEndian", "BinaryLittleEndian"}

Scalar(t) == << "Scalar", t >>
List(i, t) == << "List", i, t >>

Version(major, minor) == [major |-> major, minor |-> minor]
PropertyDef(name, data_type) == [name |-> name, data_type |-> data_type]
ElementDef(name, count, properties) ==
    [name |-> name, count |-> count, properties |-> properties]
Header(encoding, version, obj_infos, comments, elements) ==
    [encoding |-> encoding, version |-> version, obj_infos |-> obj_infos,
     comments |-> comments, elements |-> elements]

\* the value of `header` while __read_header has not returned Ok
NoHeader == Header("Ascii", Version(0, 0), << >>, << >>, << >>)

\* PropertyDef's equality, as Vec::contains uses it: identity by name
PropertyDefEq(p, q) == p.name = q.name
Contains(properties, p) ==
    \E i \in 1..Len(properties) : PropertyDefEq(properties[i], p)

-----------------------------------------------------------------------------
(* The header line grammar (ply_grammar: grammar::line).                   *)

EncodingName ==
    [e \in Encoding |->
        CASE e = "Ascii" -> "ascii"
          [] e = "BinaryBigEndian" -> "binary_big_endian"
          [] e = "BinaryLittleEndian" -> "binary_little_endian"]

ScalarTypeName ==
    [t \in ScalarType |->
        CASE t = "Char" -> "char"
          [] t = "UChar" -> "uchar"
          [] t = "Short" -> "short"
          [] t = "UShort" -> "ushort"
          [] t = "Int" -> "int"
          [] t = "UInt" -> "uint"
          [] t = "Float" -> "float"
          [] t = "Double" -> "double"]

\* first index >= i of s that holds no blank (Len(s) + 1 when there is none)
RECURSIVE SkipSpace(_, _)
SkipSpace(s, i) ==
    IF i > Len(s) THEN Len(s) + 1
    ELSE IF s[i] \in Space THEN SkipSpace(s, i + 1)
    ELSE i

\* the words of a line: maximal runs of lexemes that are not blanks
RECURSIVE SplitFields(_, _, _, _)
SplitFields(s, i, cur, acc) ==
    IF i > Len(s) THEN (IF cur = << >> THEN acc ELSE Append(acc, cur))
    ELSE IF s[i] \in Space
         THEN SplitFields(s, i + 1, << >>,
                          IF cur = << >> THEN acc ELSE Append(acc, cur))
         ELSE SplitFields(s, i + 1, Append(cur, s[i]), acc)

Fields(s) == SplitFields(s, 1, << >>, << >>)

IsNumber(w) == w # << >> /\ \A i \in 1..Len(w) : w[i] \in Digits

RECURSIVE NumVal(_)
NumVal(w) ==
    IF w = << >> THEN 0
    ELSE 10 * NumVal(SubSeq(w, 1, Len(w) - 1)) + DigitVal(w[Len(w)])

RECURSIVE RenderNat(_)
RenderNat(n) ==
    IF n < 10 THEN << Digit[n + 1] >>
    ELSE RenderNat(n \div 10) \o << Digit[(n % 10) + 1] >>

\* <major>.<minor>
IsVersion(w) ==
    \E p \in 2..(Len(w) - 1) :
        /\ w[p] = "."
        /\ IsNumber(SubSeq(w, 1, p - 1))
        /\ IsNumber(SubSeq(w, p + 1, Len(w)))

ParseVersion(w) ==
    LET p == CHOOSE q \in 2..(Len(w) - 1) : w[q] = "."
    IN  Version(NumVal(SubSeq(w, 1, p - 1)), NumVal(SubSeq(w, p + 1, Len(w))))

IsEncodingWord(w) == \E e \in Encoding : w = << EncodingName[e] >>
ParseEncoding(w) == CHOOSE e \in Encoding : w = << EncodingName[e] >>

IsTypeWord(w) == \E t \in ScalarType : w = << ScalarTypeName[t] >>
ParseType(w) == CHOOSE t \in ScalarType : w = << ScalarTypeName[t] >>

\* what follows the keyword of a comment / obj_info line and one run of blanks
RestOfLine(s) ==
    LET k == SkipSpace(s, 1)
    IN  SubSeq(s, SkipSpace(s, k + 1), Len(s))

LineOf(kind, val) == [kind |-> kind, val |-> val]
ParseError == LineOf("Err", << >>)

\* grammar::line : one raw line -> Line, or a parse error
Line(s) ==
    LET f == Fields(s)
        n == Len(f)
    IN  IF n = 0 THEN ParseError
        ELSE IF f[1] = << "ply" >>
        THEN (IF n = 1 THEN LineOf("MagicNumber", << >>) ELSE ParseError)
        ELSE IF f[1] = << "format" >>
        THEN (IF n = 3 /\ IsEncodingWord(f[2]) /\ IsVersion(f[3])
              THEN LineOf("Format", << ParseEncoding(f[2]), ParseVersion(f[3]) >>)
              ELSE ParseError)
        ELSE IF f[1] = << "comment" >>
        THEN LineOf("Comment", RestOfLine(s))
        ELSE IF f[1] = << "obj_info" >>
        THEN LineOf("ObjInfo", RestOfLine(s))
        ELSE IF f[1] = << "element" >>
        THEN (IF n = 3 /\ IsNumber(f[3])
              THEN LineOf("Element", ElementDef(f[2], NumVal(f[3]), << >>))
              ELSE ParseError)
        ELSE IF f[1] = << "property" >>
        THEN (IF n = 3 /\ IsTypeWord(f[2])
              THEN LineOf("Property", PropertyDef(f[3], Scalar(ParseType(f[2]))))
              ELSE IF n = 5 /\ f[2] = << "list" >> /\ IsTypeWord(f[3])
                      /\ IsTypeWord(f[4])
              THEN LineOf("Property",
                          PropertyDef(f[5], List(ParseType(f[3]), ParseType(f[4]))))
              ELSE ParseError)
        ELSE IF f[1] = << "end_header" >>
        THEN (IF n = 1 THEN LineOf("EndHeader", << >>) ELSE ParseError)
        ELSE ParseError

-----------------------------------------------------------------------------
(* Rendering a Header as header lines (the inverse direction of Line).     *)

FormatLine(encoding, version) ==
    << "format", SP, EncodingName[encoding], SP >>
        \o RenderNat(version.major) \o << "." >> \o RenderNat(version.minor)

CommentLine(text) == << "comment", SP >> \o text
ObjInfoLine(text) == << "obj_info", SP >> \o text
ElementLine(e) == << "element", SP >> \o e.name \o << SP >> \o RenderNat(e.count)

TypeWords(data_type) ==
    IF data_type[1] = "Scalar"
    THEN << ScalarTypeName[data_type[2]] >>
    ELSE << "list", SP, ScalarTypeName[data_type[2]], SP,
            ScalarTypeName[data_type[3]] >>

PropertyLine(p) == << "property", SP >> \o TypeWords(p.data_type) \o << SP >> \o p.name

ElementLines(e) ==
    << ElementLine(e) >> \o [i \in 1..Len(e.properties) |-> PropertyLine(e.properties[i])]

\* ply, format, comments, obj_infos, elements with their properties, end_header
RenderHeader(h) ==
    << << "ply" >>, FormatLine(h.encoding, h.version) >>
        \o [i \in 1..Len(h.comments) |-> CommentLine(h.comments[i])]
        \o [i \in 1..Len(h.obj_infos) |-> ObjInfoLine(h.obj_infos[i])]
        \o Concat([i \in 1..Len(h.elements) |-> ElementLines(h.elements[i])])
        \o << << "end_header" >> >>

-----------------------------------------------------------------------------
(* The source and the results.                                             *)

\* BufReader::read_line: the next line, or the empty string at EOF
ReadLine(src, p) == IF p < Len(src.lines) THEN src.lines[p + 1] ELSE << >>
AfterReadLine(src, p) == IF p < Len(src.lines) THEN p + 1 ELSE p

None == << >>
Some(x) == << x >>

Running == [status |-> "running", msg |-> "", line |-> 0]
Ok == [status |-> "ok", msg |-> "", line |-> 0]
\* an io::Error; line is the line number in its message (0: the message has none)
Err(msg, line) == [status |-> "err", msg |-> msg, line |-> line]

EmptyPayload == [k \in {} |-> << >>]

\* a client that calls read_ply; full and vecs are for a client that afterwards
\* reads the same input with read_header and read_payload_for_element
ReadPlyClient == [mode |-> "full", full |-> None, vecs |-> << >>]

-----------------------------------------------------------------------------
(* __read_header                                                           *)

\* mutant: any line the grammar accepts passes for the magic number
IsMagicNumber_AnyLine(l) == l.kind # "Err"

\* the match on the first line: Ok(Line::MagicNumber) => ()
IsMagicNumber(l) == l.kind = "MagicNumber"

\* mutant: the new entry is put in front
Push_Front(v, x) == << x >> \o v

\* Vec::push of header_obj_infos, header_comments, header_elements
Push(v, x) == Append(v, x)

\* mutant: the last format line wins, nothing is compared
MergeFormat_LastWins(form_ver, t) == Some(Some(t))

\* Line::Format: the stored pair after the line, None when it contradicts
MergeFormat(form_ver, t) ==
    IF form_ver = None THEN Some(Some(t))
    ELSE IF form_ver[1] # t THEN None
    ELSE Some(form_ver)

\* mutant: the property is attached to the first element
AddProperty_First(elements, p) ==
    LET e == elements[1]
        e2 == IF Contains(e.properties, p) THEN e
              ELSE [e EXCEPT !.properties = Append(e.properties, p)]
    IN  << e2 >> \o Tail(elements)

\* mutant: the property is pushed without looking for its name
AddProperty_Always(elements, p) ==
    LET n == Len(elements)
    IN  Append(SubSeq(elements, 1, n - 1),
               [elements[n] EXCEPT !.properties = Append(elements[n].properties, p)])

\* Line::Property with header_elements not empty: pop, push unless contained, push
AddProperty(elements, p) ==
    LET n == Len(elements)
        e == elements[n]
        e2 == IF Contains(e.properties, p) THEN e
              ELSE [e EXCEPT !.properties = Append(e.properties, p)]
    IN  Append(SubSeq(elements, 1, n - 1), e2)

\* mutant: a header without a format line is taken to be ascii 1.0
FinishHeader_Default(form_ver, obj_infos, comments, elements) ==
    IF form_ver = None
    THEN Some(Header("Ascii", Version(1, 0), obj_infos, comments, elements))
    ELSE Some(Header(form_ver[1][1], form_ver[1][2], obj_infos, comments, elements))

\* mutant: comments and obj_infos change places
FinishHeader_Swapped(form_ver, obj_infos, comments, elements) ==
    IF form_ver = None THEN None
    ELSE Some(Header(form_ver[1][1], form_ver[1][2], comments, obj_infos, elements))

\* the check after the 'readlines loop and the Header returned
FinishHeader(form_ver, obj_infos, comments, elements) ==
    IF form_ver = None THEN None
    ELSE Some(Header(form_ver[1][1], form_ver[1][2], obj_infos, comments, elements))

\* a panic of the thread that runs the decode
Panic(msg) == [status |-> "panic", msg |-> msg, line |-> 0]

\* mutant: a second "ply" is passed over
Fail_PlyPassedOver(msg, line) ==
    IF msg = "UnexpectedPly"
    THEN pc' = pc /\ result' = result
    ELSE /\ pc' = "failed"
         /\ result' = IF msg = "PanicCapacityOverflow" THEN Panic(msg)
                      ELSE Err(msg, line)

\* mutant: what was decoded before the failure is returned
Fail_ReturnsPartial(msg, line) ==
    /\ pc' = "done"
    /\ result' = Ok

Fail(msg, line) ==
    /\ pc' = "failed"
    /\ result' = IF msg = "PanicCapacityOverflow" THEN Panic(msg) ELSE Err(msg, line)

\* mutant: next_line is called once for the first line, after it was accepted
ReadHeaderMagic_CountsAfter ==
    /\ pc = "magic"
    /\ \E l \in {Line(ReadLine(source, pos))} :
       LET line_str == ReadLine(source, pos)
       IN  /\ pos' = AfterReadLine(source, pos)
           /\ IF IsMagicNumber(l)
              THEN /\ location' = location + 1
                   /\ pc' = "readlines"
                   /\ result' = result
              ELSE /\ location' = location
                   /\ Fail("ExpectedMagicNumber", location)
    /\ UNCHANGED << source, given, client, payload_keys, bpos, header_form_ver, header_obj_infos,
                    header_elements, header_comments, header, elem_idx, elems,
                    payload >>

\* location.next_line(), read the first line, expect Line::MagicNumber
ReadHeaderMagic ==
    /\ pc = "magic"
    /\ \E l \in {Line(ReadLine(source, pos))} :
       LET line_str == ReadLine(source, pos)
       IN  /\ pos' = AfterReadLine(source, pos)
           /\ IF IsMagicNumber(l)
              THEN /\ location' = location + 2
                   /\ pc' = "readlines"
                   /\ result' = result
              ELSE /\ location' = location + 1
                   /\ Fail("ExpectedMagicNumber", location + 1)
    /\ UNCHANGED << source, given, client, payload_keys, bpos, header_form_ver, header_obj_infos,
                    header_elements, header_comments, header, elem_idx, elems,
                    payload >>

\* mutant: an empty line is skipped and the next line is read
ReadHeaderLine_SkipsEmpty ==
    /\ pc = "readlines"
    /\ \E line \in {Line(ReadLine(source, pos))} :
       LET line_str == ReadLine(source, pos)
           k == line.kind
       IN  /\ pos' = AfterReadLine(source, pos)
           /\ header_obj_infos' =
                 IF k = "ObjInfo" THEN Push(header_obj_infos, line.val)
                 ELSE header_obj_infos
           /\ header_comments' =
                 IF k = "Comment" THEN Push(header_comments, line.val)
                 ELSE header_comments
           /\ header_elements' =
                 IF k = "Element" THEN Push(header_elements, line.val)
                 ELSE IF k = "Property" /\ header_elements # << >>
                 THEN AddProperty(header_elements, line.val)
                 ELSE header_elements
           /\ header_form_ver' =
                 IF k = "Format" /\ MergeFormat(header_form_ver, line.val) # None
                 THEN MergeFormat(header_form_ver, line.val)[1]
                 ELSE header_form_ver
           /\ CASE k = "Err" /\ line_str = << >> ->
                     UNCHANGED << pc, result, location, header >>
                [] k = "Err" ->
                     /\ Fail("CouldntParseLine", location)
                     /\ UNCHANGED << location, header >>
                [] k = "MagicNumber" ->
                     /\ Fail("UnexpectedPly", location)
                     /\ UNCHANGED << location, header >>
                [] k = "Format" /\ MergeFormat(header_form_ver, line.val) = None ->
                     /\ Fail("ContradictingFormat", location)
                     /\ UNCHANGED << location, header >>
                [] k = "Property" /\ header_elements = << >> ->
                     /\ Fail("PropertyWithoutElement", location)
                     /\ UNCHANGED << location, header >>
                [] k = "EndHeader" ->
                     LET h == FinishHeader(header_form_ver, header_obj_infos,
                                           header_comments, header_elements)
                     IN  /\ location' = location + 1
                         /\ IF h = None
                            THEN Fail("NoFormatLine", 0) /\ header' = header
                            ELSE /\ header' = h[1]
                                 /\ pc' = "payload"
                                 /\ result' = result
                [] OTHER ->
                     /\ location' = location + 1
                     /\ UNCHANGED << pc, result, header >>
    /\ UNCHANGED << source, given, client, payload_keys, bpos, elem_idx, elems, payload >>

\* one turn of the 'readlines loop; on EndHeader also the rest of the function
ReadHeaderLine ==
    /\ pc = "readlines"
    /\ \E line \in {Line(ReadLine(source, pos))} :
       LET line_str == ReadLine(source, pos)
           k == line.kind
       IN  /\ pos' = AfterReadLine(source, pos)
           /\ header_obj_infos' =
                 IF k = "ObjInfo" THEN Push(header_obj_infos, line.val)
                 ELSE header_obj_infos
           /\ header_comments' =
                 IF k = "Comment" THEN Push(header_comments, line.val)
                 ELSE header_comments
           /\ header_elements' =
                 IF k = "Element" THEN Push(header_elements, line.val)
                 ELSE IF k = "Property" /\ header_elements # << >>
                 THEN AddProperty(header_elements, line.val)
                 ELSE header_elements
           /\ header_form_ver' =
                 IF k = "Format" /\ MergeFormat(header_form_ver, line.val) # None
                 THEN MergeFormat(header_form_ver, line.val)[1]
                 ELSE header_form_ver
           /\ CASE k = "Err" ->
                     /\ Fail("CouldntParseLine", location)
                     /\ UNCHANGED << location, header >>
                [] k = "MagicNumber" ->
                     /\ Fail("UnexpectedPly", location)
                     /\ UNCHANGED << location, header >>
                [] k = "Format" /\ MergeFormat(header_form_ver, line.val) = None ->
                     /\ Fail("ContradictingFormat", location)
                     /\ UNCHANGED << location, header >>
                [] k = "Property" /\ header_elements = << >> ->
                     /\ Fail("PropertyWithoutElement", location)
                     /\ UNCHANGED << location, header >>
                [] k = "EndHeader" ->
                     LET h == FinishHeader(header_form_ver, header_obj_infos,
                                           header_comments, header_elements)
                     IN  /\ location' = location + 1
                         /\ IF h = None
                            THEN Fail("NoFormatLine", 0) /\ header' = header
                            ELSE /\ header' = h[1]
                                 /\ pc' = "payload"
                                 /\ result' = result
                [] OTHER ->
                     /\ location' = location + 1
                     /\ UNCHANGED << pc, result, header >>
    /\ UNCHANGED << source, given, client, payload_keys, bpos, elem_idx, elems, payload >>

-----------------------------------------------------------------------------
(* Decoded values.  An integer property holds its number.  A float holds   *)
(* its IEEE-754 bit pattern, most significant byte first (4 bytes for      *)
(* Float, 8 for Double).                                                   *)

\* Property::Char(v) ... Property::Double(v)
PropertyScalar(t, v) == << "Scalar", t, v >>
\* Property::ListChar(vs) ... Property::ListDouble(vs)
PropertyList(t, vs) == << "List", t, vs >>

IsFloatType(t) == t \in {"Float", "Double"}
IsSignedType(t) == t \in {"Char", "Short", "Int"}

Width ==
    [t \in ScalarType |->
        CASE t \in {"Char", "UChar"} -> 1
          [] t \in {"Short", "UShort"} -> 2
          [] t \in {"Int", "UInt", "Float"} -> 4
          [] t = "Double" -> 8]

\* the range of an integer type; the numerals of the model stay below 2^31,
\* so the upper ends of UInt and usize are never exceeded
InRange(t, v) ==
    CASE t = "Char" -> -128 <= v /\ v <= 127
      [] t = "UChar" -> 0 <= v /\ v <= 255
      [] t = "Short" -> -32768 <= v /\ v <= 32767
      [] t = "UShort" -> 0 <= v /\ v <= 65535
      [] t = "Int" -> TRUE
      [] t \in {"UInt", "usize"} -> 0 <= v

RECURSIVE Pow2(_)
Pow2(n) == IF n = 0 THEN 1 ELSE 2 * Pow2(n - 1)

\* floor(log2(n)) for n >= 1
RECURSIVE Log2(_)
Log2(n) == IF n < 2 THEN 0 ELSE 1 + Log2(n \div 2)

\* the bit pattern of the f32 nearest to the integer n (exact for |n| < 2^24)
F32Bytes(neg, n) ==
    LET s == IF neg THEN 128 ELSE 0
    IN  IF n = 0 THEN << s, 0, 0, 0 >>
        ELSE LET e == Log2(n)
                 biased == e + 127
                 mant == (n - Pow2(e)) * Pow2(23 - e)
             IN  << s + (biased \div 2),
                    (biased % 2) * 128 + (mant \div 65536),
                    (mant \div 256) % 256,
                    mant % 256 >>

\* the bit pattern of the f64 equal to the integer n (|n| < 2^21)
F64Bytes(neg, n) ==
    LET s == IF neg THEN 128 ELSE 0
    IN  IF n = 0 THEN << s, 0, 0, 0, 0, 0, 0, 0 >>
        ELSE LET e == Log2(n)
                 biased == e + 1023
                 mant == (n - Pow2(e)) * Pow2(20 - e)
             IN  << s + (biased \div 16),
                    (biased % 16) * 16 + (mant \div 65536),
                    (mant \div 256) % 256,
                    mant % 256, 0, 0, 0, 0 >>

FloatBytes(t, neg, n) == IF t = "Float" THEN F32Bytes(neg, n) ELSE F64Bytes(neg, n)

-----------------------------------------------------------------------------
(* The ascii decoder.                                                      *)

Sign == {"+", "-"}
Unsigned(w) == IF w # << >> /\ w[1] \in Sign THEN Tail(w) ELSE w

IsMantissa(m) ==
    \/ IsNumber(m)
    \/ \E p \in 2..(Len(m) - 1) :
          m[p] = "." /\ IsNumber(SubSeq(m, 1, p - 1)) /\ IsNumber(SubSeq(m, p + 1, Len(m)))

IsExponent(x) == IsNumber(Unsigned(x))

\* the numeric literal of a data line: [sign] digits [. digits] [e [sign] digits]
IsLiteral(w) ==
    LET b == Unsigned(w)
    IN  \/ IsMantissa(b)
        \/ \E p \in 2..(Len(b) - 1) :
              /\ b[p] \in {"e", "E"}
              /\ IsMantissa(SubSeq(b, 1, p - 1))
              /\ IsExponent(SubSeq(b, p + 1, Len(b)))

\* grammar::data_line : the fields of a data line, None when one is no literal
DataLine(s) ==
    LET f == Fields(s)
    IN  IF \A i \in 1..Len(f) : IsLiteral(f[i]) THEN Some(f) ELSE None

Value(v) == [ok |-> TRUE, val |-> v]
NoValue == [ok |-> FALSE, val |-> << >>]

\* mutant: a number that is out of range is cut to the low byte
Parse_Truncating(w, t) ==
    LET b == Unsigned(w)
        neg == w # << >> /\ w[1] = "-"
    IN  IF IsFloatType(t)
        THEN (IF IsNumber(b) THEN Value(FloatBytes(t, neg, NumVal(b)))
              ELSE IF IsLiteral(w) THEN Value(<< "literal", w >>)
              ELSE NoValue)
        ELSE IF ~IsNumber(b) THEN NoValue
        ELSE IF neg /\ ~IsSignedType(t) THEN NoValue
        ELSE LET v == IF neg THEN 0 - NumVal(b) ELSE NumVal(b)
             IN  IF InRange(t, v) THEN Value(v) ELSE Value(v % 256)

\* Parser::parse::<D> : str::parse for the numeric type of t (or usize)
Parse(w, t) ==
    LET b == Unsigned(w)
        neg == w # << >> /\ w[1] = "-"
    IN  IF IsFloatType(t)
        THEN (IF IsNumber(b) THEN Value(FloatBytes(t, neg, NumVal(b)))
              ELSE IF IsLiteral(w) THEN Value(<< "literal", w >>)
              ELSE NoValue)
        ELSE IF ~IsNumber(b) THEN NoValue
        ELSE IF neg /\ ~IsSignedType(t) THEN NoValue
        ELSE LET v == IF neg THEN 0 - NumVal(b) ELSE NumVal(b)
             IN  IF InRange(t, v) THEN Value(v) ELSE NoValue

\* the outcome of reading one property, list or element:
\* next is the index of the next field (ascii) or the stream position (binary)
Got(v, next) == [ok |-> TRUE, val |-> v, next |-> next, msg |-> ""]
Failed(msg, next) == [ok |-> FALSE, val |-> << >>, next |-> next, msg |-> msg]

\* a failure whose message names an index
FailedAt(msg, next, index) ==
    [ok |-> FALSE, val |-> << >>, next |-> next, msg |-> msg, index |-> index]

\* mutant: the loop stops one element early
RECURSIVE ReadAsciiList_OneLess(_, _, _, _, _)
ReadAsciiList_OneLess(fields, i, count, t, list) ==
    IF Len(list) + 1 >= count THEN Got(list, i)
    ELSE IF i > Len(fields) THEN FailedAt("NoListElementAtIndex", i, Len(list))
    ELSE LET v == Parse(fields[i], t)
         IN  IF v.ok
             THEN ReadAsciiList_OneLess(fields, i + 1, count, t, Append(list, v.val))
             ELSE Failed("ParseError", i + 1)

\* Parser::read_ascii_list : count further fields, each parsed as t
RECURSIVE ReadAsciiList(_, _, _, _, _)
ReadAsciiList(fields, i, count, t, list) ==
    IF Len(list) = count THEN Got(list, i)
    ELSE IF i > Len(fields) THEN FailedAt("NoListElementAtIndex", i, Len(list))
    ELSE LET v == Parse(fields[i], t)
         IN  IF v.ok THEN ReadAsciiList(fields, i + 1, count, t, Append(list, v.val))
             ELSE Failed("ParseError", i + 1)

\* mutant: a list is tagged with its index type
ReadAsciiProperty_IndexTag(fields, i, data_type) ==
    IF i > Len(fields) THEN Failed("ExpectedElementFoundNothing", i)
    ELSE IF data_type[1] = "Scalar"
    THEN LET v == Parse(fields[i], data_type[2])
         IN  IF v.ok THEN Got(PropertyScalar(data_type[2], v.val), i + 1)
             ELSE Failed("ParseError", i + 1)
    ELSE LET count == Parse(fields[i], "usize")
         IN  IF ~count.ok THEN Failed("ParseError", i + 1)
             ELSE LET l == ReadAsciiList(fields, i + 1, count.val, data_type[3], << >>)
                  IN  IF l.ok THEN Got(PropertyList(data_type[2], l.val), l.next)
                      ELSE l

\* Parser::read_ascii_property : fields[i] onwards, by the declared type
ReadAsciiProperty(fields, i, data_type) ==
    IF i > Len(fields) THEN Failed("ExpectedElementFoundNothing", i)
    ELSE IF data_type[1] = "Scalar"
    THEN LET v == Parse(fields[i], data_type[2])
         IN  IF v.ok THEN Got(PropertyScalar(data_type[2], v.val), i + 1)
             ELSE Failed("ParseError", i + 1)
    ELSE LET count == Parse(fields[i], "usize")
         IN  IF ~count.ok THEN Failed("ParseError", i + 1)
             ELSE LET l == ReadAsciiList(fields, i + 1, count.val, data_type[3], << >>)
                  IN  IF l.ok THEN Got(PropertyList(data_type[3], l.val), l.next)
                      ELSE l

\* PropertyAccess: an instance of E is held as the calls the decoder made on it,
\* new() and then set_property(key, property), one pair for each call in order
NewElement == << >>
SetProperty(elem, key, property) == Append(elem, << key, property >>)

\* what an instance that keeps one property per key holds after these calls
Keys(elem) == {elem[i][1] : i \in 1..Len(elem)}
Get(elem, key) ==
    elem[CHOOSE i \in 1..Len(elem) :
             /\ elem[i][1] = key
             /\ \A j \in (i + 1)..Len(elem) : elem[j][1] # key][2]
DefaultElement(elem) == [k \in Keys(elem) |-> Get(elem, k)]
DefaultElements(es) == [j \in 1..Len(es) |-> DefaultElement(es[j])]

\* mutant: set_property is called twice for every property
RECURSIVE ReadAsciiProperties_SetTwice(_, _, _, _, _)
ReadAsciiProperties_SetTwice(fields, i, properties, k, vals) ==
    IF k > Len(properties) THEN Got(vals, i)
    ELSE LET new_p == ReadAsciiProperty(fields, i, properties[k].data_type)
         IN  IF new_p.ok
             THEN ReadAsciiProperties_SetTwice(
                      fields, new_p.next, properties, k + 1,
                      SetProperty(SetProperty(vals, properties[k].name, new_p.val),
                                  properties[k].name, new_p.val))
             ELSE new_p

\* the loop over element_def.properties of read_ascii_element
RECURSIVE ReadAsciiProperties(_, _, _, _, _)
ReadAsciiProperties(fields, i, properties, k, vals) ==
    IF k > Len(properties) THEN Got(vals, i)
    ELSE LET new_p == ReadAsciiProperty(fields, i, properties[k].data_type)
         IN  IF new_p.ok
             THEN ReadAsciiProperties(fields, new_p.next, properties, k + 1,
                                      SetProperty(vals, properties[k].name, new_p.val))
             ELSE new_p

\* mutant: the first field of the line is passed over
ReadAsciiElement_FromSecondField(line, element_def) ==
    LET fields == DataLine(line)
    IN  IF fields = None THEN Failed("CouldntParseElementLine", 0)
        ELSE ReadAsciiProperties(fields[1], 2, element_def.properties, 1, NewElement)

\* mutant: fields that are left over are an error
ReadAsciiElement_NoLeftOver(line, element_def) ==
    LET fields == DataLine(line)
        r == ReadAsciiProperties(fields[1], 1, element_def.properties, 1, NewElement)
    IN  IF fields = None THEN Failed("CouldntParseElementLine", 0)
        ELSE IF r.ok /\ r.next <= Len(fields[1]) THEN Failed("LeftOverFields", r.next)
        ELSE r

\* Parser::read_ascii_element : one data line -> one element
ReadAsciiElement(line, element_def) ==
    LET fields == DataLine(line)
    IN  IF fields = None THEN Failed("CouldntParseElementLine", 0)
        ELSE ReadAsciiProperties(fields[1], 1, element_def.properties, 1, NewElement)

-----------------------------------------------------------------------------
(* The binary decoder.                                                     *)

Reverse(s) == [i \in 1..Len(s) |-> s[Len(s) + 1 - i]]

\* mutant: the bytes are taken as big endian whatever the header says
MostSignificantFirst_AlwaysBig(bs, encoding) == bs

\* ByteOrder: the bytes of one value as read, most significant first
MostSignificantFirst(bs, encoding) ==
    IF encoding = "BinaryBigEndian" THEN bs ELSE Reverse(bs)

RECURSIVE BytesVal(_, _)
BytesVal(be, acc) == IF be = << >> THEN acc ELSE BytesVal(Tail(be), 256 * acc + Head(be))

UnsignedVal(be) == BytesVal(be, 0)
\* two's complement
SignedVal(be) == BytesVal(Tail(be), IF be[1] >= 128 THEN be[1] - 256 ELSE be[1])

\* mutant: every scalar starts at a multiple of its width
ReadBinaryScalar_Aligned(bytes, p, encoding, t) ==
    LET a == p + ((Width[t] - (p % Width[t])) % Width[t])
    IN  IF a + Width[t] > Len(bytes) THEN Failed("UnexpectedEof", Len(bytes))
        ELSE LET be == MostSignificantFirst(SubSeq(bytes, a + 1, a + Width[t]), encoding)
             IN  Got(IF IsFloatType(t) THEN be
                     ELSE IF IsSignedType(t) THEN SignedVal(be)
                     ELSE UnsignedVal(be),
                     a + Width[t])

\* reader.read_i8() ... reader.read_f64::<B>() at stream position p
ReadBinaryScalar(bytes, p, encoding, t) ==
    IF p + Width[t] > Len(bytes) THEN Failed("UnexpectedEof", Len(bytes))
    ELSE LET be == MostSignificantFirst(SubSeq(bytes, p + 1, p + Width[t]), encoding)
         IN  Got(IF IsFloatType(t) THEN be
                 ELSE IF IsSignedType(t) THEN SignedVal(be)
                 ELSE UnsignedVal(be),
                 p + Width[t])

\* the for _ in 0..count loops of read_binary_property
RECURSIVE ReadBinaryList(_, _, _, _, _, _)
ReadBinaryList(bytes, p, encoding, count, t, list) ==
    IF Len(list) = count THEN Got(list, p)
    ELSE LET v == ReadBinaryScalar(bytes, p, encoding, t)
         IN  IF v.ok
             THEN ReadBinaryList(bytes, v.next, encoding, count, t, Append(list, v.val))
             ELSE v

\* mutant: the index of a list is read before its type is looked at
ReadBinaryProperty_IndexReadFirst(bytes, p, encoding, data_type) ==
    IF data_type[1] = "Scalar"
    THEN LET v == ReadBinaryScalar(bytes, p, encoding, data_type[2])
         IN  IF v.ok THEN Got(PropertyScalar(data_type[2], v.val), v.next) ELSE v
    ELSE LET count == ReadBinaryScalar(bytes, p, encoding, data_type[2])
         IN  IF ~count.ok THEN count
             ELSE IF IsFloatType(data_type[2])
             THEN Failed("IndexOfListMustBeInteger", count.next)
             ELSE IF count.val < 0 THEN Failed("PanicCapacityOverflow", count.next)
             ELSE LET l == ReadBinaryList(bytes, count.next, encoding, count.val,
                                          data_type[3], << >>)
                  IN  IF l.ok THEN Got(PropertyList(data_type[3], l.val), l.next)
                      ELSE l

\* Parser::read_binary_property
ReadBinaryProperty(bytes, p, encoding, data_type) ==
    IF data_type[1] = "Scalar"
    THEN LET v == ReadBinaryScalar(bytes, p, encoding, data_type[2])
         IN  IF v.ok THEN Got(PropertyScalar(data_type[2], v.val), v.next) ELSE v
    ELSE IF IsFloatType(data_type[2]) THEN Failed("IndexOfListMustBeInteger", p)
    ELSE LET count == ReadBinaryScalar(bytes, p, encoding, data_type[2])
         IN  IF ~count.ok THEN count
             \* a negative index `as usize` is at least 2^63: Vec::with_capacity panics
             ELSE IF count.val < 0 THEN Failed("PanicCapacityOverflow", count.next)
             ELSE LET l == ReadBinaryList(bytes, count.next, encoding, count.val,
                                          data_type[3], << >>)
                  IN  IF l.ok THEN Got(PropertyList(data_type[3], l.val), l.next)
                      ELSE l

\* the loop over element_def.properties of read_binary_element
RECURSIVE ReadBinaryProperties(_, _, _, _, _, _)
ReadBinaryProperties(bytes, p, encoding, properties, k, raw_element) ==
    IF k > Len(properties) THEN Got(raw_element, p)
    ELSE LET property == ReadBinaryProperty(bytes, p, encoding, properties[k].data_type)
         IN  IF property.ok
             THEN ReadBinaryProperties(bytes, property.next, encoding, properties, k + 1,
                                       SetProperty(raw_element, properties[k].name,
                                                   property.val))
             ELSE property

\* Parser::read_binary_element : one record at stream position p
ReadBinaryElement(bytes, p, encoding, element_def) ==
    ReadBinaryProperties(bytes, p, encoding, element_def.properties, 1, NewElement)

-----------------------------------------------------------------------------
(* __read_payload and read_*_payload_for_element                           *)

\* source.bytes: what follows the text lines of the input, read as raw bytes
Decoding ==
    /\ pc = "element" \/ (pc = "payload" /\ client.mode = "full")
    /\ elem_idx <= Len(header.elements)
ElementDefNow == header.elements[elem_idx]

\* Payload::insert, the order of the keys: a new key comes last
InsertKey(keys, key) ==
    IF \E i \in 1..Len(keys) : keys[i] = key THEN keys ELSE Append(keys, key)

\* Payload::insert
Insert(pl, key, es) ==
    [k \in (DOMAIN pl) \cup {key} |-> IF k = key THEN es ELSE pl[k]]

\* mutant: a failing data line is numbered within its element
ReadAsciiPayloadLine_NumberedInElement ==
    /\ Decoding
    /\ header.encoding = "Ascii"
    /\ Len(elems) < ElementDefNow.count
    /\ LET line_str == ReadLine(source, pos)
           e == ReadAsciiElement(line_str, ElementDefNow)
       IN  /\ pos' = AfterReadLine(source, pos)
           /\ IF e.ok
              THEN /\ elems' = Append(elems, e.val)
                   /\ location' = location + 1
                   /\ UNCHANGED << pc, result >>
              ELSE /\ Fail("CouldntReadElementLine", Len(elems) + 1)
                   /\ UNCHANGED << elems, location >>
    /\ UNCHANGED << source, given, client, payload_keys, bpos, header_form_ver, header_obj_infos,
                    header_elements, header_comments, header, elem_idx, payload >>

\* one turn of the loop of read_ascii_payload_for_element
ReadAsciiPayloadLine ==
    /\ Decoding
    /\ header.encoding = "Ascii"
    /\ Len(elems) < ElementDefNow.count
    /\ LET line_str == ReadLine(source, pos)
           e == ReadAsciiElement(line_str, ElementDefNow)
       IN  /\ pos' = AfterReadLine(source, pos)
           /\ IF e.ok
              THEN /\ elems' = Append(elems, e.val)
                   /\ location' = location + 1
                   /\ UNCHANGED << pc, result >>
              ELSE /\ Fail("CouldntReadElementLine", location)
                   /\ UNCHANGED << elems, location >>
    /\ UNCHANGED << source, given, client, payload_keys, bpos, header_form_ver, header_obj_infos,
                    header_elements, header_comments, header, elem_idx, payload >>

\* one turn of the loop of read_binary_payload_for_element
ReadBinaryPayloadElement ==
    /\ Decoding
    /\ header.encoding # "Ascii"
    /\ Len(elems) < ElementDefNow.count
    /\ LET element == ReadBinaryElement(source.bytes, bpos, header.encoding,
                                        ElementDefNow)
       IN  /\ bpos' = element.next
           /\ IF element.ok
              THEN /\ elems' = Append(elems, element.val)
                   /\ location' = location + 1
                   /\ UNCHANGED << pc, result >>
              ELSE /\ Fail(element.msg, 0)
                   /\ UNCHANGED << elems, location >>
    /\ UNCHANGED << source, given, client, payload_keys, pos, header_form_ver, header_obj_infos,
                    header_elements, header_comments, header, elem_idx, payload >>

\* read_*_payload_for_element returns Ok(elems); payload.insert(e.name.clone(), elems)
InsertElements ==
    /\ Decoding
    /\ client.mode = "full"
    /\ Len(elems) = ElementDefNow.count
    /\ payload' = Insert(payload, ElementDefNow.name, elems)
    /\ payload_keys' = InsertKey(payload_keys, ElementDefNow.name)
    /\ elem_idx' = elem_idx + 1
    /\ elems' = << >>
    /\ UNCHANGED << source, given, client, pos, bpos, location, pc, header_form_ver,
                    header_obj_infos, header_elements, header_comments, header,
                    result >>

\* __read_payload returns Ok(payload); read_ply returns Ok(ply)
ReturnPly ==
    /\ pc = "payload"
    /\ client.mode = "full"
    /\ elem_idx > Len(header.elements)
    /\ pc' = "done"
    /\ result' = Ok
    /\ UNCHANGED << source, given, client, payload_keys, pos, bpos, location, header_form_ver,
                    header_obj_infos, header_elements, header_comments, header,
                    elem_idx, elems, payload >>

-----------------------------------------------------------------------------
(* Writing: the encodings of a record that the three decoders read.        *)
(* A record is given as one value per declared property: an integer for a  *)
(* scalar (a float property holds an integral number), a sequence of       *)
(* integers for a list.                                                    *)

RenderInt(v) == IF v < 0 THEN << "-" >> \o RenderNat(0 - v) ELSE RenderNat(v)

AsciiFields(data_type, v) ==
    IF data_type[1] = "Scalar" THEN << RenderInt(v) >>
    ELSE << RenderNat(Len(v)) >> \o [i \in 1..Len(v) |-> RenderInt(v[i])]

AsciiRecordLine(properties, rec) ==
    Join(Concat([k \in 1..Len(properties) |->
                    AsciiFields(properties[k].data_type, rec[k])]))

\* the w bytes of the two's complement of v, most significant first
IntBytes(v, w) == [i \in 1..w |-> (v \div Pow2(8 * (w - i))) % 256]

ScalarBytes(t, v, encoding) ==
    LET be == IF IsFloatType(t) THEN FloatBytes(t, v < 0, IF v < 0 THEN 0 - v ELSE v)
              ELSE IntBytes(v, Width[t])
    IN  IF encoding = "BinaryBigEndian" THEN be ELSE Reverse(be)

BinaryFieldBytes(data_type, v, encoding) ==
    IF data_type[1] = "Scalar" THEN ScalarBytes(data_type[2], v, encoding)
    ELSE ScalarBytes(data_type[2], Len(v), encoding)
            \o Concat([i \in 1..Len(v) |-> ScalarBytes(data_type[3], v[i], encoding)])

BinaryRecordBytes(properties, rec, encoding) ==
    Concat([k \in 1..Len(properties) |->
               BinaryFieldBytes(properties[k].data_type, rec[k], encoding)])

\* records[i] holds the records of h.elements[i]; extra is appended to every line
AsciiPayloadLines(h, records, extra) ==
    Concat([i \in 1..Len(h.elements) |->
               [j \in 1..Len(records[i]) |->
                   AsciiRecordLine(h.elements[i].properties, records[i][j]) \o extra]])

BinaryPayloadBytes(h, records) ==
    Concat([i \in 1..Len(h.elements) |->
               Concat([j \in 1..Len(records[i]) |->
                          BinaryRecordBytes(h.elements[i].properties, records[i][j],
                                            h.encoding)])])

\* the file that holds header h and the given records in h's encoding
FileOf(h, records, extra) ==
    IF h.encoding = "Ascii"
    THEN [lines |-> RenderHeader(h) \o AsciiPayloadLines(h, records, extra),
          bytes |-> << >>]
    ELSE [lines |-> RenderHeader(h), bytes |-> BinaryPayloadBytes(h, records)]

\* the Property a decoder is to produce for value v of a property of this type
PropertyOf(data_type, v) ==
    LET one(t, x) == IF IsFloatType(t)
                     THEN FloatBytes(t, x < 0, IF x < 0 THEN 0 - x ELSE x)
                     ELSE x
    IN  IF data_type[1] = "Scalar" THEN PropertyScalar(data_type[2], one(data_type[2], v))
        ELSE PropertyList(data_type[3], [i \in 1..Len(v) |-> one(data_type[3], v[i])])

\* the element of a record: one set_property for each declared property
RECURSIVE ElementOf(_, _, _, _)
ElementOf(properties, rec, k, elem) ==
    IF k > Len(properties) THEN elem
    ELSE ElementOf(properties, rec, k + 1,
                   SetProperty(elem, properties[k].name,
                               PropertyOf(properties[k].data_type, rec[k])))

ElementsOf(element_def, recs) ==
    [j \in 1..Len(recs) |-> ElementOf(element_def.properties, recs[j], 1, NewElement)]

-----------------------------------------------------------------------------
(* The inputs.                                                             *)

SeqsUpTo(S, n) == UNION {[1..k -> S] : k \in 0..n}

RECURSIVE Product(_)
Product(sets) ==
    IF sets = << >> THEN {<< >>}
    ELSE {<< x >> \o r : x \in Head(sets), r \in Product(Tail(sets))}

FormatAscii == FormatLine("Ascii", Version(1, 0))
EndHeaderLine == << "end_header" >>
MagicLine == << "ply" >>
\* a line no rule of the grammar accepts
GarbageLine == << "five" >>

\* header statements that keep the 'readlines loop running when they are accepted
Statements ==
    { FormatAscii,
      FormatLine("BinaryLittleEndian", Version(1, 0)),
      FormatLine("Ascii", Version(1, 1)),
      CommentLine(<< "c" >>),
      ElementLine(ElementDef(<< "a" >>, 1, << >>)),
      PropertyLine(PropertyDef(<< "x" >>, Scalar("Int"))),
      PropertyLine(PropertyDef(<< "x" >>, Scalar("Float"))),
      PropertyLine(PropertyDef(<< "y" >>, Scalar("Int"))) }

\* family 1: "ply", an optional format line, statements, then end_header, a
\* second "ply" or the end of the input; and inputs whose first line is not "ply"
StatementSources ==
    { << MagicLine >> \o pre \o body \o last :
        pre \in {<< >>, << FormatAscii >>},
        body \in SeqsUpTo(Statements, MaxHeaderLines),
        last \in {<< >>, << EndHeaderLine >>, << MagicLine >>} }
    \cup { << first, MagicLine, FormatAscii, EndHeaderLine >> :
             first \in Statements \cup {EndHeaderLine, GarbageLine, << >>} }
    \cup { << >> }

\* family 2: headers to render, with texts and names of several shapes
Texts == { << >>, << "c" >>, << "c", SP, "d" >>, << SP, "c" >>, << "c", SP >> }
Names == { << "a" >>, << "b" >>, << "a", SP, "b" >>, << >> }
HeaderProperties ==
    { PropertyDef(<< "x" >>, Scalar("Int")),
      PropertyDef(<< "x" >>, List("UChar", "Float")),
      PropertyDef(<< "y" >>, Scalar("Int")),
      PropertyDef(<< >>, Scalar("Int")) }
HeaderElements ==
    { ElementDef(n, 0, ps) : n \in Names, ps \in SeqsUpTo(HeaderProperties, 1) }
    \cup { ElementDef(<< "a" >>, 10, ps) : ps \in [1..2 -> HeaderProperties] }
FormatPairs ==
    { << "Ascii", Version(1, 0) >>, << "BinaryBigEndian", Version(2, 1) >>,
      << "BinaryLittleEndian", Version(1, 10) >> }
HeadersToRender ==
    { Header(f[1], f[2], os, cs, es) :
        f \in FormatPairs,
        os \in {<< >>, << << "o" >>, << "o" >> >>, << << SP, "o" >> >>},
        cs \in SeqsUpTo(Texts, 1) \cup {<< << "c" >>, << "c", SP, "d" >> >>,
                                        << << "c" >>, << "c" >> >>},
        es \in SeqsUpTo(HeaderElements, 1)
               \cup {<< e1, e2 >> :
                        e1, e2 \in {e \in HeaderElements :
                                       e.name = << "a" >> /\ e.count = 0}} }

\* family 3: files, a rendered header followed by the encoding of records
ValuesOf(t) ==
    CASE t \in {"Char", "Int", "Float", "Double"} -> {-7, 5}
      [] t = "Short" -> {-7, 300}
      [] t = "UChar" -> {5, 200}
      [] t = "UShort" -> {5, 300}
      [] t = "UInt" -> {5, 70000}

ListsOf(t) ==
    {<< >>} \cup {<< a >> : a \in ValuesOf(t)}
            \cup {<< a, b >> : a \in ValuesOf(t), b \in ValuesOf(t)}

FieldValues(data_type) ==
    IF data_type[1] = "Scalar" THEN ValuesOf(data_type[2]) ELSE ListsOf(data_type[3])

\* the sequences of count records an element can hold
RecordsOf(element_def) ==
    [1..element_def.count ->
        Product([k \in 1..Len(element_def.properties) |->
                    FieldValues(element_def.properties[k].data_type)])]

PointProperties ==
    << PropertyDef(<< "x" >>, Scalar("Int")), PropertyDef(<< "y" >>, Scalar("Int")) >>
FaceProperties == << PropertyDef(<< "vertex_index" >>, List("UChar", "Int")) >>
IndexTypes == {t \in ScalarType : ~IsFloatType(t)}

\* elements whose count ranges up to MaxCount
CountedElements ==
    { ElementDef(<< "point" >>, c, PointProperties) : c \in 0..MaxCount }
    \cup { ElementDef(<< "face" >>, c, FaceProperties) : c \in 0..MaxCount }
    \cup { ElementDef(<< "s" >>, c, << PropertyDef(<< "v" >>, Scalar(t)) >>) :
             c \in 0..MaxCount, t \in ScalarType }
    \cup { ElementDef(<< "e" >>, c, << >>) : c \in 0..MaxCount }

\* elements of one record: every list type, a list before a scalar, a name twice
SingleElements ==
    { ElementDef(<< "l" >>, 1, << PropertyDef(<< "v" >>, List(i, t)) >>) :
        i \in IndexTypes, t \in ScalarType }
    \cup { ElementDef(<< "m" >>, 1,
                      << PropertyDef(<< "l" >>, List("UShort", "Short")),
                         PropertyDef(<< "d" >>, Scalar("Double")) >>),
           ElementDef(<< "t" >>, 1,
                      << PropertyDef(<< "x" >>, Scalar("Int")),
                         PropertyDef(<< "x" >>, Scalar("UChar")) >>) }

\* two elements in one file, also two of the same name
ElementPairs ==
    { << e1, e2 >> :
        e1 \in { ElementDef(<< "point" >>, c, PointProperties) : c \in 0..1 }
               \cup { ElementDef(<< "face" >>, c, << PropertyDef(<< "x" >>, Scalar("Int")) >>) :
                        c \in 1..2 },
        e2 \in { ElementDef(<< "face" >>, c, FaceProperties) : c \in 0..1 }
               \cup { ElementDef(<< "face" >>, 1, << PropertyDef(<< "x" >>, Scalar("Int")) >>) } }

\* elements with a list whose index type is float or double, after a scalar
FloatIndexElements ==
    { ElementDef(<< "f" >>, c,
                 << PropertyDef(<< "s" >>, Scalar("Short")),
                    PropertyDef(<< "v" >>, List(i, "Int")) >>) :
        c \in 0..1, i \in {"Float", "Double"} }

FileElements ==
    {<< e >> : e \in CountedElements \cup SingleElements \cup FloatIndexElements}
    \cup ElementPairs

FileHeader(encoding, es) == Header(encoding, Version(1, 0), << >>, << >>, es)

\* what may follow the fields of an ascii data line: nothing, or one more field
Extras(encoding) ==
    IF encoding = "Ascii" THEN {<< >>, << SP, "9" >>} ELSE {<< >>}

\* how much of the end of a file is missing: nothing, or the last field of the
\* last data line (ascii) or the last byte (binary)
Cuts(extra) == IF extra = << >> THEN {0, 1} ELSE {0}

DropLast(s) == SubSeq(s, 1, Len(s) - 1)

\* the file src of header h without its end
CutFile(h, src, cut) ==
    LET n == Len(src.lines)
    IN  IF cut = 0 THEN src
        ELSE IF h.encoding # "Ascii" THEN [src EXCEPT !.bytes = DropLast(@)]
        ELSE IF n = Len(RenderHeader(h)) THEN src
        ELSE [src EXCEPT !.lines[n] = Join(DropLast(Fields(@)))]

\* the file of tests::parser_single_elements_ok
ExampleHeader ==
    Header("Ascii", Version(1, 0), << << "o" >> >>, << << "c" >> >>,
           << ElementDef(<< "point" >>, 2, PointProperties) >>)
ExampleRecords == << << << -7, 5 >>, << 2, 4 >> >> >>

\* parsed: the lines of the input as the grammar reads them
Given(kind, h, records, extra, cut, src) ==
    [kind |-> kind, header |-> h, records |-> records, extra |-> extra, cut |-> cut,
     parsed |-> [i \in 1..Len(src.lines) |-> Line(src.lines[i])]]

-----------------------------------------------------------------------------
(* The state machine of read_ply.                                          *)

InitParser ==
    /\ pos = 0
    /\ bpos = 0
    /\ location = 0
    /\ pc = "magic"
    /\ header_form_ver = None
    /\ header_obj_infos = << >>
    /\ header_elements = << >>
    /\ header_comments = << >>
    /\ header = NoHeader
    /\ elem_idx = 1
    /\ elems = << >>
    /\ payload = EmptyPayload
    /\ payload_keys = << >>
    /\ client = ReadPlyClient
    /\ result = Running

InitStatements ==
    \E ls \in StatementSources :
        /\ source = [lines |-> ls, bytes |-> << >>]
        /\ given = Given("statements", NoHeader, << >>, << >>, 0, source)

InitHeader ==
    \E h \in HeadersToRender :
        /\ source = [lines |-> RenderHeader(h), bytes |-> << >>]
        /\ given = Given("header", h, << >>, << >>, 0, source)

InitFile ==
    \E encoding \in Encoding, es \in FileElements :
        \E records \in Product([i \in 1..Len(es) |-> RecordsOf(es[i])]),
           extra \in Extras(encoding) :
            \E cut \in Cuts(extra) :
                /\ source = CutFile(FileHeader(encoding, es),
                                    FileOf(FileHeader(encoding, es), records, extra), cut)
                /\ given = Given("file", FileHeader(encoding, es), records, extra, cut,
                                 source)

InitExample ==
    /\ source = FileOf(ExampleHeader, ExampleRecords, << >>)
    /\ given = Given("file", ExampleHeader, ExampleRecords, << >>, 0, source)

\* the texts of one field: the ends of every integer range and their
\* neighbours, a sign, leading zeros, a fraction, a letter
FieldTexts ==
    { << "0" >>, << "-", "0" >>, << "-", "1" >>, << "+", "5" >>, << "0", "0", "7" >>,
      << "1", "2", "7" >>, << "1", "2", "8" >>, << "-", "1", "2", "8" >>,
      << "-", "1", "2", "9" >>, << "2", "5", "5" >>, << "2", "5", "6" >>,
      << "3", "0", "0" >>, << "3", "2", "7", "6", "7" >>, << "3", "2", "7", "6", "8" >>,
      << "-", "3", "2", "7", "6", "8" >>, << "-", "3", "2", "7", "6", "9" >>,
      << "6", "5", "5", "3", "5" >>, << "6", "5", "5", "3", "6" >>,
      << "7", "0", "0", "0", "0" >>, << "1", ".", "5" >>, << "x" >> }

\* an ascii file of one element with one scalar property and one data line
\* of one field; given.extra holds the text of the field
InitField ==
    \E t \in ScalarType, text \in FieldTexts :
        LET h == FileHeader("Ascii", << ElementDef(<< "s" >>, 1,
                                          << PropertyDef(<< "v" >>, Scalar(t)) >>) >>)
        IN  /\ source = [lines |-> RenderHeader(h) \o << text >>, bytes |-> << >>]
            /\ given = Given("field", h, << >>, text, 0, source)

\* the numbers written as the index of a list of ints; two ints follow it
IndexValues == {-128, -1, 0, 1, 2, 3}

\* a binary file of one record that is one list of ints with a signed index:
\* the bytes of the index hold any number, given.records holds that number
InitIndex ==
    \E encoding \in Encoding \ {"Ascii"}, i \in {"Char", "Short", "Int"}, n \in IndexValues :
        LET h == FileHeader(encoding, << ElementDef(<< "l" >>, 1,
                                           << PropertyDef(<< "v" >>, List(i, "Int")) >>) >>)
        IN  /\ source = [lines |-> RenderHeader(h),
                         bytes |-> ScalarBytes(i, n, encoding)
                                      \o ScalarBytes("Int", -7, encoding)
                                      \o ScalarBytes("Int", 5, encoding)]
            /\ given = Given("index", h, << << << n >> >> >>, << >>, 0, source)

Init ==
    InitParser /\ (InitStatements \/ InitHeader \/ InitFile \/ InitExample \/ InitField
                      \/ InitIndex)

Next ==
    \/ ReadHeaderMagic
    \/ ReadHeaderLine
    \/ ReadAsciiPayloadLine
    \/ ReadBinaryPayloadElement
    \/ InsertElements
    \/ ReturnPly

Spec == Init /\ [][Next]_vars

\* read_header alone: the two steps of __read_header.  The function is run to
\* its end by the caller's executor: a step that can be taken is taken
InitHeaders == InitParser /\ (InitStatements \/ InitHeader)
NextHeader == ReadHeaderMagic \/ ReadHeaderLine
SpecHeader == InitHeaders /\ [][NextHeader]_vars /\ WF_vars(NextHeader)

-----------------------------------------------------------------------------
(* A client that reads an input with read_ply and then reads the same      *)
(* input again with read_header and, for every element of the header in    *)
(* its order, read_payload_for_element.                                    *)

\* read_ply has returned; the input is opened again and read_header is called
\* (a new LocationTracker, a new reader at the start of the input)
Reopen ==
    /\ pc \in {"done", "failed"}
    /\ client.mode = "full"
    /\ client' = [mode |-> "split",
                  full |-> [header |-> header, payload |-> payload, result |-> result],
                  vecs |-> << >>]
    /\ pos' = 0
    /\ bpos' = 0
    /\ location' = 0
    /\ pc' = "magic"
    /\ header_form_ver' = None
    /\ header_obj_infos' = << >>
    /\ header_elements' = << >>
    /\ header_comments' = << >>
    /\ header' = NoHeader
    /\ elem_idx' = 1
    /\ elems' = << >>
    /\ payload' = EmptyPayload
    /\ payload_keys' = << >>
    /\ result' = Running
    /\ UNCHANGED << source, given >>

\* read_header has returned; read_payload_for_element is called for the next
\* element of the header: let mut location = LocationTracker::new()
CallReadPayloadForElement ==
    /\ pc = "payload"
    /\ client.mode = "split"
    /\ elem_idx <= Len(header.elements)
    /\ pc' = "element"
    /\ location' = 0
    /\ UNCHANGED << source, given, client, payload_keys, pos, bpos, header_form_ver,
                    header_obj_infos, header_elements, header_comments, header,
                    elem_idx, elems, payload, result >>

\* read_payload_for_element returns Ok(elems) to the client, which keeps the Vec
ReturnElements ==
    /\ pc = "element"
    /\ Len(elems) = ElementDefNow.count
    /\ client' = [client EXCEPT !.vecs = Append(@, elems)]
    /\ elem_idx' = elem_idx + 1
    /\ elems' = << >>
    /\ pc' = "payload"
    /\ UNCHANGED << source, given, payload_keys, pos, bpos, location, header_form_ver,
                    header_obj_infos, header_elements, header_comments, header,
                    payload, result >>

InitSplit == InitParser /\ (InitFile \/ InitExample)

NextSplit ==
    \/ ReadHeaderMagic
    \/ ReadHeaderLine
    \/ ReadAsciiPayloadLine
    \/ ReadBinaryPayloadElement
    \/ InsertElements
    \/ ReturnPly
    \/ Reopen
    \/ CallReadPayloadForElement
    \/ ReturnElements

SpecSplit == InitSplit /\ [][NextSplit]_vars

-----------------------------------------------------------------------------
(* What the claims speak about.                                            *)

HeaderErrors ==
    { "ExpectedMagicNumber", "CouldntParseLine", "UnexpectedPly",
      "ContradictingFormat", "PropertyWithoutElement", "NoFormatLine" }

\* __read_header returned Ok(header)
HeaderReturned ==
    \/ pc \in {"payload", "done"}
    \/ pc = "failed" /\ result.msg \notin HeaderErrors

\* the i-th line of the input, as the grammar reads it
Parsed(i) == given.parsed[i]

IsKind(l, kind) == l.kind = kind
Vals(ls) == [i \in 1..Len(ls) |-> ls[i].val]

\* the lines consumed so far
LinesRead == [i \in 1..pos |-> Parsed(i)]
FormatsRead == Vals(SelectSeq(LinesRead, LAMBDA l : IsKind(l, "Format")))

\* the header lines of an input whose header was returned: up to end_header
EndHeaderIndex ==
    CHOOSE i \in 1..Len(source.lines) :
        /\ IsKind(Parsed(i), "EndHeader")
        /\ \A j \in 1..(i - 1) : ~IsKind(Parsed(j), "EndHeader")
HeaderLines == [i \in 1..EndHeaderIndex |-> Parsed(i)]

\* a sequence of PropertyDefs without the later ones of a name already there
RECURSIVE KeepFirst(_, _)
KeepFirst(ps, acc) ==
    IF ps = << >> THEN acc
    ELSE KeepFirst(Tail(ps),
                   IF \E i \in 1..Len(acc) : acc[i].name = Head(ps).name THEN acc
                   ELSE Append(acc, Head(ps)))

\* the indices of the Element lines of the header, in order
ElementLineIndices ==
    SelectSeq([i \in 1..EndHeaderIndex |-> i], LAMBDA i : IsKind(Parsed(i), "Element"))

\* the Property lines between the j-th Element line and the next one
PropertyLinesOf(j) ==
    LET from == ElementLineIndices[j] + 1
        to == IF j < Len(ElementLineIndices) THEN ElementLineIndices[j + 1] - 1
              ELSE EndHeaderIndex
    IN  Vals(SelectSeq([i \in 1..(to - from + 1) |-> Parsed(from + i - 1)],
                       LAMBDA l : IsKind(l, "Property")))

-----------------------------------------------------------------------------
(* C3: decode-header fails whenever the first line of the source does not  *)
(* parse as the MagicNumber statement, also when it is another valid       *)
(* header statement; no Header is returned.                                *)
C3_FirstLineMustBeMagic ==
    (pc # "magic" /\ (source.lines = << >> \/ ~IsKind(Parsed(1), "MagicNumber")))
        => /\ pc = "failed"
           /\ result.status = "err"
           /\ result.msg = "ExpectedMagicNumber"
           /\ ~HeaderReturned
           /\ header = NoHeader

\* a failed decode whose first line is a valid format statement
C3_Witness ==
    /\ pc = "failed"
    /\ Len(source.lines) > 1
    /\ IsKind(Parsed(1), "Format")
    /\ IsKind(Parsed(2), "MagicNumber")

(* C4: the first Format line sets the (encoding, version) pair; a later    *)
(* identical Format line changes nothing, a differing one (encoding or     *)
(* version) fails the decode; the Header returned carries the first pair.  *)
C4_FirstFormatWins ==
    /\ (pc = "failed" /\ result.msg = "ContradictingFormat")
          <=> (\E i \in 1..Len(FormatsRead) : FormatsRead[i] # FormatsRead[1])
    /\ pc = "readlines"
          => header_form_ver =
                IF FormatsRead = << >> THEN None ELSE Some(FormatsRead[1])
    /\ HeaderReturned
          => /\ FormatsRead # << >>
             /\ << header.encoding, header.version >> = FormatsRead[1]

\* a header returned after two format lines were read
C4_Witness == HeaderReturned /\ Len(FormatsRead) >= 2

(* C5: decode-header fails with "no format line found" exactly when        *)
(* end_header is read and no Format line was read before it, wherever in   *)
(* the header a Format line stands.                                        *)
C5_NoFormatLine ==
    (pc = "failed" /\ result.msg = "NoFormatLine")
        <=> (pos >= 2 /\ IsKind(Parsed(pos), "EndHeader") /\ FormatsRead = << >>)

\* the failure, for a header that declares an element
C5_Witness ==
    /\ pc = "failed"
    /\ result.msg = "NoFormatLine"
    /\ header_elements # << >>

\* one step of the assembler on a Property line
C6_Step ==
    LET l == Parsed(pos + 1)
        n == Len(header_elements)
    IN  (pc = "readlines" /\ pos < Len(source.lines) /\ IsKind(l, "Property"))
            => IF n = 0
               THEN /\ pc' = "failed"
                    /\ result'.msg = "PropertyWithoutElement"
                    /\ header_elements' = << >>
               ELSE /\ Len(header_elements') = n
                    /\ \A i \in 1..(n - 1) : header_elements'[i] = header_elements[i]
                    /\ header_elements'[n].name = header_elements[n].name
                    /\ header_elements'[n].count = header_elements[n].count
                    /\ header_elements'[n].properties
                          \in { header_elements[n].properties,
                                Append(header_elements[n].properties, l.val) }

(* C6: a Property line read while no Element line was accepted fails the   *)
(* decode; a Property line never creates an element and touches only the   *)
(* most recently pushed element.                                           *)
C6_PropertyNeedsElement == [][C6_Step]_vars

\* the failure on a property line before any element line
C6_Witness == pc = "failed" /\ result.msg = "PropertyWithoutElement"

\* one step of the assembler on a Property line whose name the last element has
C7_Step ==
    LET l == Parsed(pos + 1)
        n == Len(header_elements)
    IN  (/\ pc = "readlines"
         /\ pos < Len(source.lines)
         /\ IsKind(l, "Property")
         /\ n > 0
         /\ \E q \in Range(header_elements[n].properties) : q.name = l.val.name)
            => /\ header_elements' = header_elements
               /\ pc' = "readlines"
               /\ result' = result

\* the property names of every element of a returned header differ pairwise
C7_Distinct ==
    HeaderReturned
        => \A e \in Range(header.elements) :
              \A i, j \in 1..Len(e.properties) :
                 e.properties[i].name = e.properties[j].name => i = j

(* C7: a Property line whose name already exists on the most recently      *)
(* pushed element is a no-op, whatever data type it declares: nothing is   *)
(* appended, the earlier definition stays, no error is raised; so the      *)
(* property names within one element of a returned Header are pairwise     *)
(* distinct.                                                               *)
C7_DuplicatePropertyIsNoOp == [][C7_Step]_vars /\ []C7_Distinct

\* a header returned after two property lines of one name and different types
C7_Witness ==
    /\ HeaderReturned
    /\ \E i \in 1..(EndHeaderIndex - 1) :
          /\ IsKind(Parsed(i), "Property")
          /\ IsKind(Parsed(i + 1), "Property")
          /\ Parsed(i).val.name = Parsed(i + 1).val.name
          /\ Parsed(i).val.data_type # Parsed(i + 1).val.data_type
          /\ \E e \in Range(header.elements) : e.properties = << Parsed(i).val >>

(* C8: the Header returned lists comments, obj_infos, elements and each    *)
(* element's properties in the order of their lines in the header; every   *)
(* Comment and ObjInfo line gives one entry, duplicates included, and      *)
(* every Element line gives one ElementDef.                                *)
C8_DeclarationOrder ==
    HeaderReturned
        => /\ header.comments =
                 Vals(SelectSeq(HeaderLines, LAMBDA l : IsKind(l, "Comment")))
           /\ header.obj_infos =
                 Vals(SelectSeq(HeaderLines, LAMBDA l : IsKind(l, "ObjInfo")))
           /\ Len(header.elements) = Len(ElementLineIndices)
           /\ \A j \in 1..Len(ElementLineIndices) :
                 LET l == Parsed(ElementLineIndices[j])
                 IN  /\ header.elements[j].name = l.val.name
                     /\ header.elements[j].count = l.val.count
                     /\ header.elements[j].properties =
                           KeepFirst(PropertyLinesOf(j), << >>)

\* a returned header with a comment twice, two obj_infos and two elements
C8_Witness ==
    /\ HeaderReturned
    /\ Len(header.comments) = 2
    /\ header.comments[1] = header.comments[2]
    /\ Len(header.obj_infos) = 2
    /\ Len(header.elements) = 2
    /\ header.elements[1] # header.elements[2]
    /\ header.elements[2].properties # << >>

\* a name the Normalizer accepts: not empty and without white space
IsConsistentName(name) == name # << >> /\ \A i \in 1..Len(name) : name[i] \notin Space

\* a header the Normalizer accepts, with distinct property names per element
ValidHeader(h) ==
    \A e \in Range(h.elements) :
        /\ IsConsistentName(e.name)
        /\ \A i, j \in 1..Len(e.properties) :
              /\ IsConsistentName(e.properties[i].name)
              /\ e.properties[i].name = e.properties[j].name => i = j

\* comments and obj_infos that do not begin with white space
NoLeadingSpace(texts) ==
    \A t \in Range(texts) : t = << >> \/ t[1] \notin Space

\* decode-header is over for a rendered header
RenderedAndRead == given.kind \in {"header", "file"} /\ pc \notin {"magic", "readlines"}

\* C9 as stated: every header the Normalizer accepts is reconstructed
C9_Original ==
    (RenderedAndRead /\ ValidHeader(given.header))
        => HeaderReturned /\ header = given.header

(* C9: header round trip, for every valid Header H whose comments and      *)
(* obj_infos do not begin with white space: decode-header of the rendered  *)
(* lines of H returns H, with elements, properties, comments and obj_infos *)
(* in their order.                                                         *)
C9_RoundTrip ==
    (/\ RenderedAndRead
     /\ ValidHeader(given.header)
     /\ NoLeadingSpace(given.header.comments)
     /\ NoLeadingSpace(given.header.obj_infos))
        => HeaderReturned /\ header = given.header

\* a round trip of two comments, two obj_infos, two elements, a list property
C9_Witness ==
    /\ given.kind = "header"
    /\ HeaderReturned
    /\ header = given.header
    /\ header.encoding # "Ascii"
    /\ Len(header.comments) = 2
    /\ header.comments[1] # header.comments[2]
    /\ Len(header.obj_infos) = 2
    /\ Len(header.elements) = 2
    /\ \E p \in Range(header.elements[2].properties) : p.data_type[1] = "List"

-----------------------------------------------------------------------------
(* Files: a rendered header followed by the encoding of records.           *)

FileRead == given.kind = "file" /\ pc = "done"

\* the index of the last ElementDef of the header that has this name
LastOfName(name) ==
    CHOOSE i \in 1..Len(header.elements) :
        /\ header.elements[i].name = name
        /\ \A j \in (i + 1)..Len(header.elements) : header.elements[j].name # name

\* the elements the records of the i-th ElementDef of the header stand for
Expected(i) == ElementsOf(header.elements[i], given.records[i])

(* C1: after a successful read_ply, for every ElementDef E of the header   *)
(* the payload has an entry keyed by E.name that holds exactly E.count     *)
(* elements, in the order of the records in the source.                    *)
C1_Original ==
    FileRead
        => \A i \in 1..Len(header.elements) :
              LET E == header.elements[i]
              IN  /\ E.name \in DOMAIN payload
                  /\ Len(payload[E.name]) = E.count
                  /\ payload[E.name] = Expected(i)

\* what read_ply does return: the entry of a name is that of the last ElementDef
\* of the name; the elements of an earlier one are decoded and then replaced
LastOfNameInPayload ==
    FileRead
        => /\ DOMAIN payload = {header.elements[i].name : i \in 1..Len(header.elements)}
           /\ \A name \in DOMAIN payload :
                 /\ Len(payload[name]) = header.elements[LastOfName(name)].count
                 /\ payload[name] = Expected(LastOfName(name))

\* a file read whose two elements have one name and different counts
C1_Witness ==
    /\ FileRead
    /\ Len(header.elements) = 2
    /\ header.elements[1].name = header.elements[2].name
    /\ header.elements[1].count = 2
    /\ Len(payload[header.elements[1].name]) = 1

\* the element a property at a time, by hand, for the two lines of the example
ExamplePoints ==
    << [k \in {<< "x" >>, << "y" >>} |->
           IF k = << "x" >> THEN << "Scalar", "Int", -7 >> ELSE << "Scalar", "Int", 5 >>],
       [k \in {<< "x" >>, << "y" >>} |->
           IF k = << "x" >> THEN << "Scalar", "Int", 2 >> ELSE << "Scalar", "Int", 4 >>] >>

(* C2: read_ascii_element on a line with at least as many fields as the    *)
(* schema consumes returns an element that maps each declared property     *)
(* name to the value of the fields consumed for it, left to right in       *)
(* declaration order; the lines "-7 5" and "2 4" of element point with     *)
(* int x and int y decode to {x:-7,y:5} and {x:2,y:4}.                     *)
C2_FieldsInDeclarationOrder ==
    (/\ given.kind = "file"
     /\ given.cut = 0
     /\ header.encoding = "Ascii"
     /\ pc \in {"payload", "done", "failed"})
        => /\ pc # "failed"
           /\ Decoding
                 => elems = ElementsOf(ElementDefNow,
                                       SubSeq(given.records[elem_idx], 1, Len(elems)))
           /\ (pc = "done" /\ given.header = ExampleHeader /\ given.records = ExampleRecords)
                 => DefaultElements(payload[<< "point" >>]) = ExamplePoints

\* the example read to its end
C2_Witness ==
    /\ FileRead
    /\ source.lines[Len(source.lines) - 1] = << "-", "7", SP, "5" >>
    /\ source.lines[Len(source.lines)] = << "2", SP, "4" >>
    /\ header.elements = << ElementDef(<< "point" >>, 2, PointProperties) >>
    /\ DefaultElements(payload[<< "point" >>]) = ExamplePoints

\* the index type of every list of the header is an integer type: the records
\* have a binary encoding that the binary decoder accepts
IntegerIndices(h) ==
    \A e \in Range(h.elements) :
        \A q \in Range(e.properties) :
            q.data_type[1] = "List" => ~IsFloatType(q.data_type[2])

\* one record in its three encodings, each decoded by its decoder
AsciiDecoded(E, rec) == ReadAsciiElement(AsciiRecordLine(E.properties, rec), E)
BinaryDecoded(E, rec, encoding) ==
    ReadBinaryElement(BinaryRecordBytes(E.properties, rec, encoding), 0, encoding, E)

(* C10: for any ElementDef and any records, the decodings of the ascii,    *)
(* the big-endian and the little-endian encoding of the records are equal  *)
(* generic elements; the header elements and the payload read from a file  *)
(* are the same whatever its encoding.                                     *)
C10_EncodingsDecodeEqual ==
    (given.kind = "file" /\ given.cut = 0 /\ IntegerIndices(given.header))
        => /\ \A i \in 1..Len(given.header.elements) :
                 \A j \in 1..Len(given.records[i]) :
                    LET E == given.header.elements[i]
                        rec == given.records[i][j]
                        a == AsciiDecoded(E, rec)
                        b == BinaryDecoded(E, rec, "BinaryBigEndian")
                        l == BinaryDecoded(E, rec, "BinaryLittleEndian")
                    IN  /\ a.ok /\ b.ok /\ l.ok
                        /\ a.val = b.val
                        /\ b.val = l.val
           /\ pc # "failed"
           /\ pc = "done"
                 => /\ header.elements =
                          [i \in 1..Len(given.header.elements) |->
                              [given.header.elements[i] EXCEPT
                                  !.properties = KeepFirst(@, << >>)]]
                    /\ \A i \in 1..Len(header.elements) :
                          i = LastOfName(header.elements[i].name)
                             => payload[header.elements[i].name] = Expected(i)

\* a little-endian file read: a list of two shorts before a double
C10_Witness ==
    /\ FileRead
    /\ header.encoding = "BinaryLittleEndian"
    /\ << "m" >> \in DOMAIN payload
    /\ Get(payload[<< "m" >>][1], << "l" >>) = PropertyList("Short", << -7, 300 >>)
    /\ Get(payload[<< "m" >>][1], << "d" >>) = PropertyScalar("Double", F64Bytes(TRUE, 7))

-----------------------------------------------------------------------------
\* the variant of a decoded Property is the one of the declared type
TagMatches(data_type, property) ==
    IF data_type[1] = "Scalar"
    THEN property[1] = "Scalar" /\ property[2] = data_type[2]
    ELSE property[1] = "List" /\ property[2] = data_type[3]

\* every property the ElementDef declares is in the element, with its variant
ElementMatches(element_def, element) ==
    \A q \in Range(element_def.properties) :
        /\ q.name \in Keys(element)
        /\ TagMatches(q.data_type, Get(element, q.name))

(* C11: in the ascii and in the binary decoder the variant of every        *)
(* decoded Property is the one of the PropertyType it was decoded for:     *)
(* Scalar(T) gives the scalar variant of T, List(_, T) the list variant of *)
(* T whatever the index type; a scalar never gives a list nor a list a     *)
(* scalar.                                                                 *)
C11_VariantMatchesType ==
    /\ Decoding
          => \A j \in 1..Len(elems) : ElementMatches(ElementDefNow, elems[j])
    /\ pc \in {"payload", "done"}
          => \A i \in 1..Len(header.elements) :
                (i < elem_idx /\ i = LastOfName(header.elements[i].name))
                   => \A j \in 1..Len(payload[header.elements[i].name]) :
                         ElementMatches(header.elements[i],
                                        payload[header.elements[i].name][j])

\* an ascii file read: a short and a list of int whose index type is double
C11_Witness ==
    /\ FileRead
    /\ header.encoding = "Ascii"
    /\ << "f" >> \in DOMAIN payload
    /\ Len(payload[<< "f" >>]) = 1
    /\ header.elements[1].properties[2].data_type = List("Double", "Int")
    /\ Get(payload[<< "f" >>][1], << "s" >>) = PropertyScalar("Short", 300)
    /\ Get(payload[<< "f" >>][1], << "v" >>) = PropertyList("Int", << -7, 5 >>)

-----------------------------------------------------------------------------
\* the number of records the header declares
RECURSIVE SumCounts(_)
SumCounts(es) == IF es = << >> THEN 0 ELSE Head(es).count + SumCounts(Tail(es))

\* the lines of the input after end_header
DataLinesGiven == Len(source.lines) - EndHeaderIndex

AsciiRead == pc = "done" /\ header.encoding = "Ascii"

(* C12: the ascii payload decoder reads exactly count lines for every      *)
(* ElementDef, and the decode fails when the source ends before count      *)
(* lines were read for an element, however many properties it declares.    *)
C12_Original ==
    AsciiRead
        => /\ SumCounts(header.elements) <= DataLinesGiven
           /\ pos = EndHeaderIndex + SumCounts(header.elements)

\* what the decoder does guarantee: the same, when every element that has
\* records declares a property
EofFailsWithProperties ==
    (AsciiRead /\ \A e \in Range(header.elements) : e.count > 0 => e.properties # << >>)
        => /\ SumCounts(header.elements) <= DataLinesGiven
           /\ pos = EndHeaderIndex + SumCounts(header.elements)

\* read_ply returned a Ply with one element a, for an input without data lines
C12_Witness ==
    /\ AsciiRead
    /\ DataLinesGiven = 0
    /\ header.elements = << ElementDef(<< "a" >>, 1, << >>) >>
    /\ payload[<< "a" >>] = << NewElement >>

-----------------------------------------------------------------------------
\* one step of the ascii decoder on a line whose first property is a list
C13_Step ==
    LET E == ElementDefNow
        q == E.properties[1]
        t == q.data_type[3]
        fields == Fields(ReadLine(source, pos))
        n == NumVal(fields[1])
        have == Len(fields) - 1
        r == ReadAsciiProperty(fields, 1, q.data_type)
        new == elems'[Len(elems')]
    IN  (/\ given.kind = "file"
         /\ Decoding
         /\ header.encoding = "Ascii"
         /\ Len(elems) < E.count
         /\ E.properties # << >>
         /\ q.data_type[1] = "List"
         /\ fields # << >>)
            => IF have < n
               THEN /\ ~r.ok
                    /\ r.msg = "NoListElementAtIndex"
                    /\ r.index = have
                    /\ pc' = "failed"
                    /\ result'.status = "err"
                    /\ elems' = elems
               ELSE /\ r.ok
                    /\ r.val = PropertyList(t, [k \in 1..n |-> Parse(fields[k + 1], t).val])
                    /\ r.next = n + 2
                    /\ IF Len(E.properties) = 1
                       THEN /\ pc' = pc
                            /\ Len(elems') = Len(elems) + 1
                            /\ Get(new, q.name) = r.val
                       ELSE IF have = n
                       THEN pc' = "failed"
                       ELSE /\ pc' = pc
                            /\ Len(elems') = Len(elems) + 1
                            /\ Get(new, q.name) = r.val
                            /\ Get(new, E.properties[2].name) =
                                  ReadAsciiProperty(fields, n + 2,
                                                    E.properties[2].data_type).val
                            /\ Get(new, E.properties[2].name)[3] =
                                  Parse(fields[n + 2], E.properties[2].data_type[2]).val

(* C13: for an ascii List property the decoder takes one field as the      *)
(* count, then exactly count further fields as the elements of the list,   *)
(* in order, and leaves the fields after them to the next property; when   *)
(* the line ends before count elements were found the decode fails with an *)
(* error that names the index of the first missing element.                *)
C13_AsciiList == [][C13_Step]_vars

\* the decode failed on a line that declares two list elements and holds one
C13_Witness ==
    /\ given.kind = "file"
    /\ given.cut = 1
    /\ header.encoding = "Ascii"
    /\ pc = "failed"
    /\ result.msg = "CouldntReadElementLine"
    /\ ElementDefNow.properties[1].data_type[1] = "List"
    /\ Len(Fields(source.lines[pos])) = 2
    /\ Fields(source.lines[pos])[1] = << "2" >>

-----------------------------------------------------------------------------
IsFloatIndexList(data_type) == data_type[1] = "List" /\ IsFloatType(data_type[2])

HasFloatIndex(element_def) ==
    \E q \in Range(element_def.properties) : IsFloatIndexList(q.data_type)

\* the first property of the ElementDef that is a list with a float index
FirstFloatIndex(element_def) ==
    CHOOSE k \in 1..Len(element_def.properties) :
        /\ IsFloatIndexList(element_def.properties[k].data_type)
        /\ \A j \in 1..(k - 1) : ~IsFloatIndexList(element_def.properties[j].data_type)

\* the bytes of the scalar properties 1..k of the ElementDef
RECURSIVE ScalarBytesUpTo(_, _)
ScalarBytesUpTo(element_def, k) ==
    IF k = 0 THEN 0
    ELSE Width[element_def.properties[k].data_type[2]] + ScalarBytesUpTo(element_def, k - 1)

(* C14: the binary decode, big or little endian, of an element that        *)
(* declares a List property whose index type is Float or Double fails with *)
(* an error, and no byte of that property is taken from the stream before  *)
(* the failure.                                                            *)
C14_FloatIndexFailsBeforeReading ==
    (given.kind = "file" /\ header.encoding # "Ascii")
        => /\ pc = "done"
                 => \A e \in Range(header.elements) : e.count > 0 => ~HasFloatIndex(e)
           /\ (Decoding /\ HasFloatIndex(ElementDefNow)) => elems = << >>
           /\ (pc = "failed" /\ HasFloatIndex(ElementDefNow))
                 => /\ result = Err("IndexOfListMustBeInteger", 0)
                    /\ elems = << >>
                    /\ bpos = ScalarBytesUpTo(ElementDefNow,
                                              FirstFloatIndex(ElementDefNow) - 1)
           /\ (pc = "failed" /\ result.msg = "IndexOfListMustBeInteger")
                 => HasFloatIndex(ElementDefNow)

\* the failure in a little-endian file, after the two bytes of the short before
C14_Witness ==
    /\ given.kind = "file"
    /\ header.encoding = "BinaryLittleEndian"
    /\ pc = "failed"
    /\ result.msg = "IndexOfListMustBeInteger"
    /\ ElementDefNow.properties[2].data_type = List("Float", "Int")
    /\ bpos = 2
    /\ Len(source.bytes) > 6

-----------------------------------------------------------------------------
\* the record the payload decoder is about to read cannot be decoded
NextRecordFails ==
    /\ Decoding
    /\ Len(elems) < ElementDefNow.count
    /\ IF header.encoding = "Ascii"
       THEN ~ReadAsciiElement(ReadLine(source, pos), ElementDefNow).ok
       ELSE ~ReadBinaryElement(source.bytes, bpos, header.encoding, ElementDefNow).ok

\* the next header line cannot be accepted
NextHeaderLineFails ==
    \/ pc = "magic" /\ (pos >= Len(source.lines) \/ ~IsKind(Parsed(pos + 1), "MagicNumber"))
    \/ /\ pc = "readlines"
       /\ \/ pos >= Len(source.lines)
          \/ Parsed(pos + 1).kind \in {"Err", "MagicNumber"}
          \/ IsKind(Parsed(pos + 1), "Property") /\ header_elements = << >>
          \/ /\ IsKind(Parsed(pos + 1), "Format")
             /\ header_form_ver # None
             /\ header_form_ver # Some(Parsed(pos + 1).val)
          \/ IsKind(Parsed(pos + 1), "EndHeader") /\ header_form_ver = None

\* a step of read_ply: it starts where read_ply has not returned, and a failure
\* of the header or of a record ends it with an error and changes no result
C15_Step ==
    /\ pc \notin {"failed", "done"}
    /\ (NextRecordFails \/ NextHeaderLineFails)
          => /\ pc' = "failed"
             \* a negative index of a binary list ends read_ply by a panic (C33)
             /\ IF given.kind = "index" /\ given.records[1][1][1] < 0
                THEN result' = Panic("PanicCapacityOverflow")
                ELSE result'.status = "err"
             /\ payload' = payload
             /\ elems' = elems
             /\ header' = header

\* read_ply returns a Ply only when nothing failed
C15_NoPartialResult ==
    /\ result.status = "ok" <=> pc = "done"
    /\ pc = "failed" => result.status \notin {"ok", "running"}
    /\ pc \notin {"failed", "done"} => result = Running

-----------------------------------------------------------------------------
(* The consistency check of a Ply object: Ply::make_consistent.  A client  *)
(* builds or changes a Ply and calls make_consistent before writing it.    *)

LF == "\n"
CR == "\r"

has_white_space(s) == \E i \in 1..Len(s) : s[i] \in {SP, TAB}

has_line_break(s) == \E i \in 1..Len(s) : s[i] \in {LF, CR}

\* ConsistencyError::new: the description, and the text the description quotes
ConsistencyError(description, text) ==
    [status |-> "err", msg |-> description, line |-> 0, text |-> text]

Ply(h, pl, keys) == [header |-> h, payload |-> pl, payload_keys |-> keys]

\* the first loop: an empty Vec for every ElementDef the payload has no entry for
RECURSIVE InsertMissing_Replace(_, _, _)
InsertMissing_Replace(elements, i, ply) ==
    IF i > Len(elements) THEN ply
    ELSE InsertMissing_Replace(elements, i + 1,
             Ply(ply.header, Insert(ply.payload, elements[i].name, << >>),
                 InsertKey(ply.payload_keys, elements[i].name)))

RECURSIVE InsertMissing(_, _, _)
InsertMissing(elements, i, ply) ==
    IF i > Len(elements) THEN ply
    ELSE IF elements[i].name \in DOMAIN ply.payload
    THEN InsertMissing(elements, i + 1, ply)
    ELSE InsertMissing(elements, i + 1,
             Ply(ply.header, Insert(ply.payload, elements[i].name, << >>),
                 InsertKey(ply.payload_keys, elements[i].name)))

\* elements.iter_mut().find(|x| x.name == *pk): the index of the first ElementDef
\* of that name, 0 when there is none
Find(elements, pk) ==
    IF \E j \in 1..Len(elements) : elements[j].name = pk
    THEN CHOOSE j \in 1..Len(elements) :
             /\ elements[j].name = pk
             /\ \A k \in 1..(j - 1) : elements[k].name # pk
    ELSE 0

\* the second loop, over the entries of the payload in their order: the count of
\* the ElementDef found becomes the length of the entry
RECURSIVE SetCounts_Add(_, _, _, _)
SetCounts_Add(elements, pl, keys, i) ==
    IF i > Len(keys) THEN [elements |-> elements, result |-> Ok]
    ELSE LET pk == keys[i]
             ed == Find(elements, pk)
         IN  IF pk = << >>
             THEN [elements |-> elements,
                   result |-> ConsistencyError("EmptyElementName", pk)]
             ELSE IF ed = 0
             THEN [elements |-> elements,
                   result |-> ConsistencyError("NoDeclaration", pk)]
             ELSE SetCounts_Add([elements EXCEPT ![ed].count = @ + Len(pl[pk])],
                                pl, keys, i + 1)

RECURSIVE SetCounts_Skip(_, _, _, _)
SetCounts_Skip(elements, pl, keys, i) ==
    IF i > Len(keys) THEN [elements |-> elements, result |-> Ok]
    ELSE LET pk == keys[i]
             ed == Find(elements, pk)
         IN  IF pk = << >>
             THEN [elements |-> elements,
                   result |-> ConsistencyError("EmptyElementName", pk)]
             ELSE IF ed = 0
             THEN SetCounts_Skip(elements, pl, keys, i + 1)
             ELSE SetCounts_Skip([elements EXCEPT ![ed].count = Len(pl[pk])],
                                 pl, keys, i + 1)

\* mutant: the empty name is looked up like every other name
RECURSIVE SetCounts_EmptyNameLookedUp(_, _, _, _)
SetCounts_EmptyNameLookedUp(elements, pl, keys, i) ==
    IF i > Len(keys) THEN [elements |-> elements, result |-> Ok]
    ELSE LET pk == keys[i]
             ed == Find(elements, pk)
         IN  IF ed = 0
             THEN [elements |-> elements,
                   result |-> ConsistencyError("NoDeclaration", pk)]
             ELSE SetCounts_EmptyNameLookedUp([elements EXCEPT ![ed].count = Len(pl[pk])],
                                             pl, keys, i + 1)

RECURSIVE SetCounts(_, _, _, _)
SetCounts(elements, pl, keys, i) ==
    IF i > Len(keys) THEN [elements |-> elements, result |-> Ok]
    ELSE LET pk == keys[i]
             ed == Find(elements, pk)
         IN  IF pk = << >>
             THEN [elements |-> elements,
                   result |-> ConsistencyError("EmptyElementName", pk)]
             ELSE IF ed = 0
             THEN [elements |-> elements,
                   result |-> ConsistencyError("NoDeclaration", pk)]
             ELSE SetCounts([elements EXCEPT ![ed].count = Len(pl[pk])],
                            pl, keys, i + 1)

\* the loops over obj_infos and over comments
RECURSIVE CheckTexts(_, _, _)
CheckTexts(texts, i, description) ==
    IF i > Len(texts) THEN Ok
    ELSE IF has_line_break(texts[i]) THEN ConsistencyError(description, texts[i])
    ELSE CheckTexts(texts, i + 1, description)

RECURSIVE CheckProperties_NoWhiteSpace(_, _)
CheckProperties_NoWhiteSpace(properties, k) ==
    IF k > Len(properties) THEN Ok
    ELSE IF has_line_break(properties[k].name)
    THEN ConsistencyError("PropertyNameLineBreak", properties[k].name)
    ELSE CheckProperties_NoWhiteSpace(properties, k + 1)

\* the inner loop over the properties of one element
RECURSIVE CheckProperties(_, _)
CheckProperties(properties, k) ==
    IF k > Len(properties) THEN Ok
    ELSE IF has_line_break(properties[k].name)
    THEN ConsistencyError("PropertyNameLineBreak", properties[k].name)
    ELSE IF has_white_space(properties[k].name)
    THEN ConsistencyError("PropertyNameWhiteSpace", properties[k].name)
    ELSE CheckProperties(properties, k + 1)

\* the last loop, over the elements
RECURSIVE CheckElements(_, _)
CheckElements(elements, i) ==
    IF i > Len(elements) THEN Ok
    ELSE IF has_line_break(elements[i].name)
    THEN ConsistencyError("ElementNameLineBreak", elements[i].name)
    ELSE IF has_white_space(elements[i].name)
    THEN ConsistencyError("ElementNameWhiteSpace", elements[i].name)
    ELSE LET r == CheckProperties(elements[i].properties, 1)
         IN  IF r.status = "err" THEN r ELSE CheckElements(elements, i + 1)

\* mutant: a text that holds a line break is taken out of the header
MakeConsistent_DropsTexts(ply) ==
    LET filled == InsertMissing(ply.header.elements, 1, ply)
        counted == SetCounts(filled.header.elements, filled.payload,
                             filled.payload_keys, 1)
        h == [filled.header EXCEPT
                 !.elements = counted.elements,
                 !.obj_infos = SelectSeq(@, LAMBDA t : ~has_line_break(t)),
                 !.comments = SelectSeq(@, LAMBDA t : ~has_line_break(t))]
        oi == CheckTexts(filled.header.obj_infos, 1, "ObjInfoLineBreak")
        c == CheckTexts(filled.header.comments, 1, "CommentLineBreak")
    IN  [ply |-> Ply(h, filled.payload, filled.payload_keys),
         result |-> IF counted.result.status = "err" THEN counted.result
                    ELSE IF oi.status = "err" THEN oi
                    ELSE IF c.status = "err" THEN c
                    ELSE CheckElements(h.elements, 1)]

\* make_consistent: the Ply it leaves behind and what it returns
MakeConsistent(ply) ==
    LET filled == InsertMissing(ply.header.elements, 1, ply)
        counted == SetCounts(filled.header.elements, filled.payload,
                             filled.payload_keys, 1)
        h == [filled.header EXCEPT !.elements = counted.elements]
        oi == CheckTexts(h.obj_infos, 1, "ObjInfoLineBreak")
        c == CheckTexts(h.comments, 1, "CommentLineBreak")
    IN  [ply |-> Ply(h, filled.payload, filled.payload_keys),
         result |-> IF counted.result.status = "err" THEN counted.result
                    ELSE IF oi.status = "err" THEN oi
                    ELSE IF c.status = "err" THEN c
                    ELSE CheckElements(h.elements, 1)]

\* a client calls make_consistent, and then once more
CallMakeConsistent ==
    /\ pc \in {"ply", "normalized"}
    /\ LET r == MakeConsistent(Ply(header, payload, payload_keys))
       IN  /\ header' = r.ply.header
           /\ payload' = r.ply.payload
           /\ payload_keys' = r.ply.payload_keys
           /\ result' = r.result
    /\ pc' = IF pc = "ply" THEN "normalized" ELSE "again"
    /\ UNCHANGED << source, given, client, pos, bpos, location, header_form_ver,
                    header_obj_infos, header_elements, header_comments,
                    elem_idx, elems >>

-----------------------------------------------------------------------------
(* The Ply objects make_consistent is called on.                           *)

\* a Vec<E> of n elements
Entry(n) == [i \in 1..n |-> NewElement]

\* sequences without repetition: the keys of a map in their order
KeyOrders(S, n) == {ks \in SeqsUpTo(S, n) : \A i, j \in 1..Len(ks) : i # j => ks[i] # ks[j]}

PayloadsOver(S) ==
    {[keys |-> ks, payload |-> [k \in Range(ks) |-> Entry(ns[k])]] :
        ks \in KeyOrders(S, 2), ns \in [S -> 0..MaxCount]}

\* a count no Vec of the payloads below has as its length
StaleCount == MaxCount + 3

\* declarations and payloads that agree or disagree: elements without an entry,
\* entries without an element, counts that are not the lengths, the empty name,
\* two elements of one name
CountedNames == {<< "a" >>, << "b" >>, << >>}
CountedHeaders ==
    {Header("Ascii", Version(1, 0), << >>, << >>, es) :
        es \in SeqsUpTo({ElementDef(n, c, << >>) :
                            n \in CountedNames, c \in {0, StaleCount}}, 2)}

\* texts with and without blanks and line breaks
CommentTexts == {<< "c" >>, << "c", SP, "d" >>, << "c", LF >>, << CR >>}
NameTexts ==
    {<< "a" >>, << "a", SP, "b" >>, << "a", TAB >>, << LF, "a" >>, << "a", CR >>}
TextHeaders ==
    {Header("Ascii", Version(1, 0), ois, cs, es) :
        ois \in SeqsUpTo(CommentTexts, 1), cs \in SeqsUpTo(CommentTexts, 1),
        es \in SeqsUpTo({ElementDef(n, 0, ps) :
                            n \in NameTexts,
                            ps \in SeqsUpTo({PropertyDef(pn, Scalar("Char")) :
                                                pn \in NameTexts}, 1)}, 1)}

InitCounted ==
    \E h \in CountedHeaders, p \in PayloadsOver(CountedNames) :
        /\ header = h
        /\ payload = p.payload
        /\ payload_keys = p.keys

InitTexts ==
    \E h \in TextHeaders :
        /\ header = h
        /\ payload = EmptyPayload
        /\ payload_keys = << >>

InitPly ==
    /\ InitCounted \/ InitTexts
    /\ given = [kind |-> "ply", ply |-> Ply(header, payload, payload_keys)]
    /\ source = [lines |-> << >>, bytes |-> << >>]
    /\ pos = 0
    /\ bpos = 0
    /\ location = 0
    /\ pc = "ply"
    /\ header_form_ver = None
    /\ header_obj_infos = << >>
    /\ header_elements = << >>
    /\ header_comments = << >>
    /\ elem_idx = 1
    /\ elems = << >>
    /\ client = ReadPlyClient
    /\ result = Running

NextPly == CallMakeConsistent

SpecPly == InitPly /\ [][NextPly]_vars

-----------------------------------------------------------------------------
(* C16: what a successful make_consistent leaves behind.                   *)

Normalized == pc \in {"normalized", "again"}

DistinctNames(elements) ==
    \A i, j \in 1..Len(elements) : i # j => elements[i].name # elements[j].name

\* every ElementDef has an entry of the length of its count, every key an ElementDef
Reconciled ==
    /\ \A i \in 1..Len(header.elements) :
           /\ header.elements[i].name \in DOMAIN payload
           /\ header.elements[i].count = Len(payload[header.elements[i].name])
    /\ \A k \in DOMAIN payload : \E i \in 1..Len(header.elements) :
           header.elements[i].name = k

(* C16: after make_consistent returned success, every ElementDef of        *)
(* header.elements has a payload entry under its name, its count is the    *)
(* length of that entry, and every key of the payload has an ElementDef of *)
(* that name; for every header, also one with two ElementDefs of one name. *)
C16_Original == (Normalized /\ result.status = "ok") => Reconciled

\* with no name declared twice the counts and the entries agree after a success
C16_ReconciledWhenDistinct ==
    (Normalized /\ result.status = "ok" /\ DistinctNames(header.elements))
        => Reconciled

\* two ElementDefs "a", one entry of one element: success, the first count is
\* the length, the second count is still the stale one
C16_Witness ==
    /\ pc = "normalized"
    /\ result = Ok
    /\ given.ply.header.elements =
           << ElementDef(<< "a" >>, 0, << >>), ElementDef(<< "a" >>, StaleCount, << >>) >>
    /\ given.ply.payload = [k \in {<< "a" >>} |-> Entry(1)]
    /\ header.elements =
           << ElementDef(<< "a" >>, 1, << >>), ElementDef(<< "a" >>, StaleCount, << >>) >>
    /\ payload = given.ply.payload

-----------------------------------------------------------------------------
(* C17: elements that are declared and have no entry in the payload.       *)

\* the ElementDefs of a Ply that have no entry in its payload
MissingEntries(ply) ==
    {i \in 1..Len(ply.header.elements) :
        ply.header.elements[i].name \notin DOMAIN ply.payload}

\* the keys of the payload of a Ply that no ElementDef declares
Undeclared(ply) == {k \in DOMAIN ply.payload : Find(ply.header.elements, k) = 0}

\* some text of the header has a character the consistency check rejects
OffendingText(h) ==
    \/ \E i \in 1..Len(h.obj_infos) : has_line_break(h.obj_infos[i])
    \/ \E i \in 1..Len(h.comments) : has_line_break(h.comments[i])
    \/ \E i \in 1..Len(h.elements) :
        \/ has_line_break(h.elements[i].name)
        \/ has_white_space(h.elements[i].name)
        \/ \E k \in 1..Len(h.elements[i].properties) :
            \/ has_line_break(h.elements[i].properties[k].name)
            \/ has_white_space(h.elements[i].properties[k].name)

\* nothing but missing entries and counts is wrong with the Ply
Sound(ply) == Undeclared(ply) = {} /\ ~OffendingText(ply.header)

EmptyNames(ply) ==
    \/ << >> \in DOMAIN ply.payload
    \/ \E i \in 1..Len(ply.header.elements) : ply.header.elements[i].name = << >>

EntriesKept == \A k \in DOMAIN given.ply.payload : payload[k] = given.ply.payload[k]

-----------------------------------------------------------------------------
(* C18: entries of the payload that no ElementDef declares.                *)

\* the errors of the loop over the payload
PayloadErrors == {"EmptyElementName", "NoDeclaration"}

(* C18 as stated: make_consistent fails with the error "no declaration for *)
(* element" whenever the payload has a key that no ElementDef of           *)
(* header.elements carries as its name, and the loop over the payload      *)
(* succeeds otherwise.                                                     *)
C18_Original ==
    Normalized =>
        IF Undeclared(given.ply) # {}
        THEN result.status = "err" /\ result.msg = "NoDeclaration"
        ELSE result.msg \notin PayloadErrors

(* C18: make_consistent fails whenever the payload has a key that no       *)
(* ElementDef carries as its name; the error is "no declaration for        *)
(* element" and names such a key, unless a key of the payload or a name of *)
(* an ElementDef is empty: an empty name makes the loop over the payload   *)
(* fail in every case, with "element cannot have empty name" or, when an   *)
(* undeclared key comes before it, with "no declaration".  The loop        *)
(* succeeds when every key is declared and no name is empty.               *)
C18_UndeclaredKeyFails ==
    Normalized =>
        /\ Undeclared(given.ply) # {} =>
               (result.status = "err" /\ result.msg \in PayloadErrors)
        /\ (Undeclared(given.ply) # {} /\ ~EmptyNames(given.ply)) =>
               result.msg = "NoDeclaration"
        /\ result.msg = "NoDeclaration" => result.text \in Undeclared(given.ply)
        /\ result.msg = "EmptyElementName" => EmptyNames(given.ply)
        /\ EmptyNames(given.ply) =>
               (result.status = "err" /\ result.msg \in PayloadErrors)
        /\ (Undeclared(given.ply) = {} /\ ~EmptyNames(given.ply)) =>
               result.msg \notin PayloadErrors

\* the payload has the entries "a" and "b", only "a" is declared
C18_Witness ==
    /\ pc = "normalized"
    /\ given.ply.header.elements = << ElementDef(<< "a" >>, 0, << >>) >>
    /\ given.ply.payload_keys = << << "a" >>, << "b" >> >>
    /\ Len(given.ply.payload[<< "a" >>]) = 1
    /\ result = ConsistencyError("NoDeclaration", << "b" >>)
    /\ header.elements = << ElementDef(<< "a" >>, 1, << >>) >>

-----------------------------------------------------------------------------
(* C19: the texts of the header.                                           *)

LineBreakErrors ==
    {"ObjInfoLineBreak", "CommentLineBreak", "ElementNameLineBreak",
     "PropertyNameLineBreak"}
WhiteSpaceErrors == {"ElementNameWhiteSpace", "PropertyNameWhiteSpace"}

(* C19: make_consistent returns an error whenever a comment, an obj_info,  *)
(* an element name or a property name contains a line feed or a carriage   *)
(* return, and whenever an element name or a property name contains a      *)
(* space or a tab; it returns success only if no such text has such a      *)
(* character.  When the loop over the payload passed, it returns success   *)
(* exactly if none has, and the error quotes a text that has.              *)
C19_TextsAreChecked ==
    Normalized =>
        /\ OffendingText(given.ply.header) => result.status = "err"
        /\ result = Ok => ~OffendingText(given.ply.header)
        /\ result.msg \notin PayloadErrors =>
               (result = Ok <=> ~OffendingText(given.ply.header))
        /\ result.msg \in LineBreakErrors => has_line_break(result.text)
        /\ result.msg \in WhiteSpaceErrors => has_white_space(result.text)

\* an element "a" whose only property has a tab in its name, nothing else wrong
C19_Witness ==
    /\ pc = "normalized"
    /\ given.ply.header.obj_infos = << << "c", SP, "d" >> >>
    /\ given.ply.header.comments = << << "c" >> >>
    /\ given.ply.header.elements =
           << ElementDef(<< "a" >>, 0,
                         << PropertyDef(<< "a", TAB >>, Scalar("Char")) >>) >>
    /\ result = ConsistencyError("PropertyNameWhiteSpace", << "a", TAB >>)

-----------------------------------------------------------------------------
(* C20: make_consistent called twice.                                      *)

\* the second call, made right after the first one
C20_Step ==
    pc = "normalized" =>
        /\ pc' = "again"
        /\ result' = result
        /\ header' = header
        /\ payload' = payload
        /\ payload_keys' = payload_keys

(* C20: make_consistent is idempotent: a second call right after a first   *)
(* call returns what the first call returned, success or the same error,   *)
(* and leaves the Ply exactly as the first call left it.                   *)
C20_Idempotent == [][C20_Step]_vars

\* both calls were made on a Ply the first call changed before it failed: the
\* count of "a" was set, an entry for "a" was there, "b" is not declared
C20_Witness ==
    /\ pc = "again"
    /\ given.ply.header.elements = << ElementDef(<< "a" >>, StaleCount, << >>) >>
    /\ given.ply.payload_keys = << << "a" >>, << "b" >> >>
    /\ Len(given.ply.payload[<< "a" >>]) = 2
    /\ header.elements = << ElementDef(<< "a" >>, 2, << >>) >>
    /\ result = ConsistencyError("NoDeclaration", << "b" >>)

-----------------------------------------------------------------------------
(* C21: read_header and read_payload_for_element against read_ply.         *)

SplitMode == client.mode = "split"

\* read_header has returned its Header to the client
SplitHeaderReturned == SplitMode /\ pc \in {"payload", "element"}

\* the client has called read_payload_for_element for every element
SplitDone == SplitMode /\ pc = "payload" /\ elem_idx > Len(header.elements)

\* read_header has consumed the lines up to end_header, that line included, and
\* no byte after it; its Header is the one read_ply had
HeaderOnly ==
    /\ (SplitHeaderReturned /\ elem_idx = 1 /\ pc = "payload" /\ given.kind = "file")
          => (pos = EndHeaderIndex /\ bpos = 0)
    /\ SplitHeaderReturned => header = client.full.header

\* the two ways of reading fail together, with the same kind of error
FailTogether ==
    /\ (SplitMode /\ pc = "failed")
          => (client.full.result.status = "err"
              /\ client.full.result.msg = result.msg)
    /\ SplitDone => client.full.result = Ok

(* C21 as stated: read_header consumes the lines up to and including       *)
(* end_header and nothing after it, and read_header followed by            *)
(* read_payload_for_element for every element in header order gives the    *)
(* Header of read_ply and, for every element, the records read_ply has     *)
(* for it.                                                                 *)
C21_Original ==
    /\ HeaderOnly
    /\ FailTogether
    /\ SplitMode
          => \A i \in 1..Len(client.vecs) :
                client.vecs[i] = client.full.payload[header.elements[i].name]

\* the same for every ElementDef that is the last one of its name
C21_SplitEqualsFullForLastOfName ==
    /\ HeaderOnly
    /\ FailTogether
    /\ (SplitMode /\ client.full.result = Ok)
          => \A i \in 1..Len(client.vecs) :
                i = LastOfName(header.elements[i].name)
                   => client.vecs[i] = client.full.payload[header.elements[i].name]

\* two elements named face: read_payload_for_element gave the record of the
\* first one, read_ply has only the records of the second one under that name
C21_Witness ==
    /\ SplitDone
    /\ header.encoding = "Ascii"
    /\ Len(header.elements) = 2
    /\ header.elements[1].name = header.elements[2].name
    /\ header.elements[2].count = 0
    /\ Len(client.vecs[1]) = 1
    /\ client.full.result = Ok
    /\ client.full.payload[header.elements[1].name] = << >>

-----------------------------------------------------------------------------
(* C22: the calls the decoders make on the instance of E.                  *)

\* an instance on which a call was made before the decoder got it
UsedInstance == SetProperty(NewElement, << "u" >>, PropertyScalar("Char", 0))

\* the calls on an instance: set_property once for each PropertyDef, in the order
\* of the PropertyDefs, with the name of the PropertyDef and the value of the record
CallsInOrder(element_def, element, rec) ==
    /\ Len(element) = Len(element_def.properties)
    /\ \A k \in 1..Len(element) :
          /\ element[k][1] = element_def.properties[k].name
          /\ element[k][2] = PropertyOf(element_def.properties[k].data_type, rec[k])

\* one record decoded from a file: the instance that is pushed is a new one with
\* these calls made on it; a record that fails leaves no instance behind; what
\* the decoder does is the same on an instance that holds something
C22_Step ==
    LET E == ElementDefNow
        line == ReadLine(source, pos)
        ascii == header.encoding = "Ascii"
        r == IF ascii THEN ReadAsciiElement(line, E)
             ELSE ReadBinaryElement(source.bytes, bpos, header.encoding, E)
        used == IF ascii
                THEN IF DataLine(line) = None THEN r
                     ELSE ReadAsciiProperties(DataLine(line)[1], 1, E.properties, 1,
                                              UsedInstance)
                ELSE ReadBinaryProperties(source.bytes, bpos, header.encoding,
                                          E.properties, 1, UsedInstance)
    IN  (/\ given.kind = "file"
         /\ Decoding
         /\ Len(elems) < E.count)
            => /\ used.ok = r.ok
               /\ IF r.ok
                  THEN /\ elems' = Append(elems, r.val)
                       /\ CallsInOrder(E, r.val, given.records[elem_idx][Len(elems) + 1])
                       /\ used.val = UsedInstance \o r.val
                       /\ used.next = r.next
                  ELSE /\ elems' = elems
                       /\ pc' = "failed"

(* C22: for every record, in the ascii and in the binary decoder, the      *)
(* decoder makes one new instance and calls set_property on it once for    *)
(* each declared property, in the order of the PropertyDefs, with the name *)
(* of the property and its decoded value; set_property for a property is   *)
(* called only after the property was decoded, a record that fails gives   *)
(* no instance; the decoder never reads the instance: what it calls does   *)
(* not depend on what the instance holds.                                  *)
C22_MaterializerCalls == [][C22_Step]_vars

\* a little-endian record of a list and a double was decoded: two calls
C22_Witness ==
    /\ given.kind = "file"
    /\ Decoding
    /\ header.encoding = "BinaryLittleEndian"
    /\ ElementDefNow.name = << "m" >>
    /\ Len(elems) = 1
    /\ elems[1] = << << << "l" >>, PropertyList("Short", << -7, 300 >>) >>,
                     << << "d" >>, PropertyScalar("Double", F64Bytes(TRUE, 7)) >> >>

-----------------------------------------------------------------------------
(* C23: a second "ply".                                                    *)

\* the lines after the first one that are "ply" and have no end_header before them
SecondMagic ==
    {i \in 2..Len(source.lines) :
        /\ IsKind(Parsed(i), "MagicNumber")
        /\ \A j \in 1..(i - 1) : ~IsKind(Parsed(j), "EndHeader")}

FirstSecondMagic == CHOOSE i \in SecondMagic : \A j \in SecondMagic : i <= j

(* C23: a MagicNumber line anywhere after the first line and before        *)
(* end_header makes __read_header fail: no Header is returned, the input   *)
(* is read no further than that line, and when that line is reached the    *)
(* error is "Unexpected 'ply' found." with the number of that line.        *)
C23_SecondMagicFails ==
    SecondMagic # {} =>
        /\ pc \notin {"payload", "done"}
        /\ header = NoHeader
        /\ pos <= FirstSecondMagic
        /\ pc = "readlines" => pos < FirstSecondMagic
        /\ pos = FirstSecondMagic =>
              (pc = "failed" /\ result = Err("UnexpectedPly", FirstSecondMagic))

\* "ply" is the fourth line, after a format line and an element line
C23_Witness ==
    /\ pc = "failed"
    /\ Len(source.lines) = 4
    /\ IsKind(Parsed(2), "Format")
    /\ IsKind(Parsed(3), "Element")
    /\ IsKind(Parsed(4), "MagicNumber")
    /\ result = Err("UnexpectedPly", 4)
    /\ pos = 4

-----------------------------------------------------------------------------
(* C24: an input that ends before its first line.                          *)

\* the failures of the source itself, handed on by the ? operator: a read that
\* found the stream ended
SourceFailures == {"UnexpectedEof"}

(* C24 as stated: when the source is at its end before any line,           *)
(* __read_header reports the failure of the source, handed on unchanged,   *)
(* and not a parse failure that the header assembler made.                 *)
C24_Original ==
    (source.lines = << >> /\ pc # "magic")
        => (pc = "failed" /\ result.msg \in SourceFailures)

\* the empty input: the failure is the parse failure of the first line, made by
\* parse_ascii_rethrow with line number 1
C24_Witness ==
    /\ source.lines = << >>
    /\ source.bytes = << >>
    /\ pc = "failed"
    /\ pos = 0
    /\ location = 1
    /\ result = Err("ExpectedMagicNumber", 1)

-----------------------------------------------------------------------------
(* C25: fields after the last declared property.                           *)

\* one data line of a file whose data lines all have a field too many, under
\* the element definitions the file was written from
C25_Step ==
    LET E == ElementDefNow
        line == ReadLine(source, pos)
        bare == AsciiRecordLine(E.properties, given.records[elem_idx][Len(elems) + 1])
        r == ReadAsciiElement(line, E)
        r0 == ReadAsciiElement(bare, E)
    IN  (/\ given.kind = "file"
         /\ given.extra # << >>
         /\ header.elements = given.header.elements
         /\ Decoding
         /\ header.encoding = "Ascii"
         /\ Len(elems) < E.count)
            => /\ line = bare \o given.extra
               /\ Len(Fields(line)) = Len(Fields(bare)) + 1
               /\ r.ok
               /\ r0.ok
               /\ r.val = r0.val
               /\ r.next = Len(Fields(line))
               /\ elems' = Append(elems, r0.val)
               /\ pc' = pc

(* C25: in the ascii decoder the fields that are left on a data line after *)
(* every declared property has taken its fields are ignored without an     *)
(* error: the line decodes to the element that the line without these      *)
(* fields decodes to.                                                      *)
C25_TrailingFieldsIgnored == [][C25_Step]_vars

\* the file was read to its end; its data lines "1 -7 9" hold a list of one
\* element and one field more
C25_Witness ==
    /\ FileRead
    /\ given.extra = << SP, "9" >>
    /\ header.elements = << ElementDef(<< "face" >>, 2, FaceProperties) >>
    /\ source.lines[Len(source.lines)] = << "1", SP, "-", "7", SP, "9" >>
    /\ Len(payload[<< "face" >>]) = 2
    /\ Get(payload[<< "face" >>][2], << "vertex_index" >>) = PropertyList("Int", << -7 >>)

-----------------------------------------------------------------------------
(* C26: one field of a scalar property.                                    *)

FieldType == given.header.elements[1].properties[1].data_type[2]

\* the text is an integer in decimal digits, with or without a sign
IntegerText(w) == IsNumber(Unsigned(w))
TextValue(w) == IF w[1] = "-" THEN 0 - NumVal(Tail(w)) ELSE NumVal(Unsigned(w))

\* the integers of a type; every integer of FieldTexts is an Int, and a UInt
\* when it is not negative
Holds(t, v) ==
    CASE t = "Char" -> v \in -128..127
      [] t = "UChar" -> v \in 0..255
      [] t = "Short" -> v \in -32768..32767
      [] t = "UShort" -> v \in 0..65535
      [] t = "Int" -> v \in -70000..70000
      [] t = "UInt" -> v \in 0..70000

BadField(t, w) ==
    IF IsFloatType(t) THEN ~IsLiteral(w)
    ELSE ~IntegerText(w) \/ ~Holds(t, TextValue(w))

\* a text that every integer type takes when the value is in its range
PlainField(t, w) == ~BadField(t, w) /\ (IsFloatType(t) \/ w[1] # "-" \/ IsSignedType(t))

FieldDecoded(t, w) ==
    /\ pc' = pc
    /\ Len(elems') = 1
    /\ elems'[1] = << << << "v" >>, elems'[1][1][2] >> >>
    /\ elems'[1][1][2][1] = "Scalar"
    /\ elems'[1][1][2][2] = t
    /\ ~IsFloatType(t) => elems'[1][1][2][3] = TextValue(w)
    /\ (IsFloatType(t) /\ IntegerText(w)) =>
            elems'[1][1][2][3] = FloatBytes(t, w[1] = "-", NumVal(Unsigned(w)))

C26_Step ==
    (/\ given.kind = "field"
     /\ pc = "payload"
     /\ elem_idx = 1
     /\ elems = << >>)
        => /\ ReadLine(source, pos) = given.extra
           /\ Len(Fields(given.extra)) = 1
           /\ BadField(FieldType, given.extra) =>
                 /\ pc' = "failed"
                 /\ result' = Err("CouldntReadElementLine", 6)
                 /\ elems' = elems
           /\ PlainField(FieldType, given.extra) => pc' = pc
           /\ pc' # "failed" => FieldDecoded(FieldType, given.extra)

(* C26: in the ascii decoder a Scalar property takes exactly one field and *)
(* parses it as the declared numeric type.  A field that is out of the     *)
(* range of the type (300 or -1 for UChar, 128 for Char, 70000 for UShort) *)
(* or is not a number of the type's shape makes the decode fail; a value   *)
(* is never wrapped or truncated.                                          *)
C26_ScalarField == [][C26_Step]_vars

\* "300" was read as a uchar: the decode failed at the data line; no element
C26_Witness ==
    /\ given.kind = "field"
    /\ FieldType = "UChar"
    /\ given.extra = << "3", "0", "0" >>
    /\ pc = "failed"
    /\ result = Err("CouldntReadElementLine", 6)
    /\ pos = Len(source.lines)
    /\ elems = << >>
    /\ payload = EmptyPayload

-----------------------------------------------------------------------------
(* C27: the bytes of a binary record.                                      *)

\* the bytes of one value of a scalar type
BytesOfType(t) ==
    CASE t \in {"Char", "UChar"} -> 1
      [] t \in {"Short", "UShort"} -> 2
      [] t \in {"Int", "UInt", "Float"} -> 4
      [] t = "Double" -> 8

\* v is the value the file was written from: a number or a sequence of numbers
BytesOfField(data_type, v) ==
    IF data_type[1] = "Scalar" THEN BytesOfType(data_type[2])
    ELSE BytesOfType(data_type[2]) + Len(v) * BytesOfType(data_type[3])

RECURSIVE BytesOfRecord(_, _, _)
BytesOfRecord(properties, rec, k) ==
    IF k > Len(properties) THEN 0
    ELSE BytesOfField(properties[k].data_type, rec[k])
            + BytesOfRecord(properties, rec, k + 1)

RECURSIVE BytesOfRecords(_, _, _)
BytesOfRecords(properties, recs, n) ==
    IF n = 0 THEN 0
    ELSE BytesOfRecords(properties, recs, n - 1) + BytesOfRecord(properties, recs[n], 1)

\* the bytes of all records of the elements before element i
RECURSIVE FirstByteOf(_)
FirstByteOf(i) ==
    IF i = 1 THEN 0
    ELSE FirstByteOf(i - 1)
            + BytesOfRecords(given.header.elements[i - 1].properties,
                             given.records[i - 1], Len(given.records[i - 1]))

\* a whole binary file whose lists have integer indices, read under the
\* element definitions it was written from
BinaryRecords ==
    /\ given.kind = "file"
    /\ given.cut = 0
    /\ header.encoding # "Ascii"
    /\ header.elements = given.header.elements
    /\ IntegerIndices(header)
    /\ pc = "payload"
    /\ elem_idx <= Len(header.elements)

C27_Step ==
    BinaryRecords =>
        LET E == ElementDefNow
            recs == given.records[elem_idx]
        IN  /\ bpos = FirstByteOf(elem_idx) + BytesOfRecords(E.properties, recs, Len(elems))
            /\ Len(elems) < E.count =>
                  /\ pc' = pc
                  /\ Len(elems') = Len(elems) + 1
                  /\ bpos' = bpos + BytesOfRecord(E.properties, recs[Len(elems) + 1], 1)
            /\ Len(elems) = E.count =>
                  /\ bpos' = bpos
                  /\ bpos' = FirstByteOf(elem_idx + 1)
                  /\ elem_idx' = elem_idx + 1

(* C27: the binary decode of one record takes exactly the bytes of its     *)
(* properties in declaration order, with no padding: 1 byte for Char and   *)
(* UChar, 2 for Short and UShort, 4 for Int, UInt and Float, 8 for Double, *)
(* and for a List the width of the index plus the index value times the    *)
(* width of the element type.  The records of an element take the sum of   *)
(* these and leave the stream at the first byte of the next element.       *)
C27_BinaryRecordBytes == [][C27_Step]_vars

\* one point (two ints: 4 + 4 bytes) was read, and then one face whose list
\* holds two ints (1 + 2 * 4 bytes): 17 bytes, the end of the stream
C27_Witness ==
    /\ BinaryRecords
    /\ header.elements = << ElementDef(<< "point" >>, 1, PointProperties),
                            ElementDef(<< "face" >>, 1, FaceProperties) >>
    /\ elem_idx = 2
    /\ Len(payload[<< "point" >>]) = 1
    /\ Len(elems) = 1
    /\ Get(elems[1], << "vertex_index" >>) = PropertyList("Int", << -7, 5 >>)
    /\ bpos = 17
    /\ Len(source.bytes) = 17

-----------------------------------------------------------------------------
(* C28: what make_consistent leaves alone.                                 *)

\* the entries the call found are as they were, in their order; every new
\* entry is empty and has the name of an element
PayloadKept ==
    /\ DOMAIN payload \subseteq DOMAIN payload'
    /\ \A k \in DOMAIN payload : payload'[k] = payload[k]
    /\ \A k \in (DOMAIN payload') \ (DOMAIN payload) :
          /\ payload'[k] = << >>
          /\ \E i \in 1..Len(header.elements) : header.elements[i].name = k
    /\ SubSeq(payload_keys', 1, Len(payload_keys)) = payload_keys

\* the elements are as they were but for their counts, and a count that is
\* new is the length of the entry of that name
ElementsKept ==
    /\ Len(header'.elements) = Len(header.elements)
    /\ \A i \in 1..Len(header.elements) :
          /\ header'.elements[i].name = header.elements[i].name
          /\ header'.elements[i].properties = header.elements[i].properties
          /\ header'.elements[i].count # header.elements[i].count =>
                header'.elements[i].count = Len(payload'[header.elements[i].name])

C28_Step ==
    pc \in {"ply", "normalized"} =>
        /\ result'.status \in {"ok", "err"}
        /\ header'.encoding = header.encoding
        /\ header'.version = header.version
        /\ header'.comments = header.comments
        /\ header'.obj_infos = header.obj_infos
        /\ ElementsKept
        /\ PayloadKept
        /\ result'.status = "err" /\ result'.msg \in (LineBreakErrors \cup WhiteSpaceErrors) =>
              \* steps 1 and 2 were done in full
              /\ \A i \in 1..Len(header.elements) :
                    header.elements[i].name \in DOMAIN payload'
              /\ \A i \in 1..Len(header.elements) :
                    header'.elements[Find(header.elements, header.elements[i].name)].count
                        = Len(payload'[header.elements[i].name])

(* C28: make_consistent changes nothing but the two things of its first    *)
(* two steps: it puts an empty sequence into the payload for an element    *)
(* that has no entry, and it overwrites counts of ElementDefs.  Encoding,  *)
(* version, comments, obj_infos, the names of elements and properties, the *)
(* property lists and every sequence the payload held before are as they   *)
(* were when it returns, whether it succeeds or fails; when a text check   *)
(* fails, what steps 1 and 2 did stays and nothing else is changed.        *)
C28_NormalizeFrame == [][C28_Step]_vars

\* a call failed on a comment with a line break: the comment is still there,
\* the element "a" got its entry and the property list is as it was
C28_Witness ==
    /\ pc = "normalized"
    /\ result = ConsistencyError("CommentLineBreak", << "c", LF >>)
    /\ header.comments = << << "c", LF >> >>
    /\ header = given.ply.header
    /\ header.elements # << >>
    /\ header.elements[1].properties # << >>
    /\ given.ply.payload = EmptyPayload
    /\ payload = [k \in {header.elements[1].name} |-> << >>]

-----------------------------------------------------------------------------
(* C29: a list whose index type is Float or Double, in every decoder.      *)

\* a file with a record of an element that has such a list
FloatIndexRecord ==
    /\ given.kind = "file"
    /\ given.cut = 0
    /\ \E e \in Range(given.header.elements) : e.count > 0 /\ HasFloatIndex(e)

(* C29 as stated: a List property whose index type is Float or Double is   *)
(* an error in every payload decoder: the decode of a record with such a   *)
(* property fails in the ascii encoding as in the two binary encodings.    *)
C29_Original ==
    FloatIndexRecord =>
        /\ pc # "done"
        /\ Decoding => \A j \in 1..Len(elems) : ~HasFloatIndex(ElementDefNow)

\* read_ply returned Ok for an ascii file whose list "v" is declared as
\* "property list float int v": the data line "-7 1 5" gave the list (5)
C29_Witness ==
    /\ FloatIndexRecord
    /\ header.encoding = "Ascii"
    /\ pc = "done"
    /\ result = Ok
    /\ header.elements[1].properties[2].data_type = List("Float", "Int")
    /\ source.lines[Len(source.lines)] = << "-", "7", SP, "1", SP, "5" >>
    /\ DefaultElements(payload[<< "f" >>])
          = << [k \in {<< "s" >>, << "v" >>} |->
                  IF k = << "s" >> THEN PropertyScalar("Short", -7)
                  ELSE PropertyList("Int", << 5 >>)] >>

-----------------------------------------------------------------------------
(* C30: the line counter of the LocationTracker.                           *)

\* the records of the payload decoded so far
RECURSIVE RecordsBefore(_)
RecordsBefore(i) == IF i = 1 THEN 0 ELSE RecordsBefore(i - 1) + header.elements[i - 1].count
RecordsRead == RecordsBefore(elem_idx) + Len(elems)

\* the lines taken from the text and the records taken from the bytes
Consumed == pos + (IF header.encoding # "Ascii" THEN RecordsRead ELSE 0)

(* C30 as stated: the line counter is 0 before any line is read, never     *)
(* decreases and is advanced by exactly one per line consumed and once per *)
(* binary record: after a decode has consumed k lines and records the      *)
(* counter equals k.                                                       *)
C30_Original == location = Consumed

\* the header lines and the records that were accepted; an ascii record
\* without properties is decoded from the empty text read_line leaves at the
\* end of the input, so a record need not have taken a line
Accepted == IF pc = "readlines" THEN pos ELSE EndHeaderIndex + RecordsRead

\* a header line or a record is accepted
Accepting ==
    /\ pc' # "failed"
    /\ pos' = pos + 1 \/ Len(elems') = Len(elems) + 1

C30_Step ==
    /\ pc = "magic" => (location = 0 /\ pos = 0)
    /\ location' >= location
    /\ pc \notin {"magic", "failed"} => location = Accepted + 1
    /\ pc' \notin {"magic", "failed"} => location' = Accepted' + 1
    /\ (pc' = "done" /\ given.kind = "file" /\ given.cut = 0) => location' = Consumed' + 1
    /\ (pc = "magic" /\ Accepting) => location' = location + 2
    /\ (pc # "magic" /\ Accepting) => location' = location + 1
    /\ (pc = "magic" /\ pc' = "failed") => (location' = 1 /\ result'.line = 1)
    /\ (pc # "magic" /\ pc' = "failed" /\ result'.msg # "NoFormatLine") =>
          /\ location' = location
          /\ result'.line \in {0, location}
    \* the end_header line was accepted before the format was missed
    /\ (pc' = "failed" /\ result'.msg = "NoFormatLine") =>
          /\ location' = location + 1
          /\ result'.line = 0
    /\ ~Accepting /\ pc' # "failed" => location' = location

(* C30: the counter is 0 when read_ply starts and never decreases.  It is   *)
(* advanced once before the first line is read and once more after every   *)
(* header line and every record, ascii or binary, that was accepted, so    *)
(* that it is the number of the line that is read next: after k lines and  *)
(* records were accepted the counter is k + 1, and for a whole file that   *)
(* is one more than the lines and records consumed.  A line or a record    *)
(* that fails does not advance it, and an error that names a line carries  *)
(* the counter as the number of the failing line.  A header without a      *)
(* format line fails after its end_header line was counted.                *)
C30_CounterIsNextLine == [][C30_Step]_vars

\* the example file was read: 8 header lines and 2 data lines, counter 11
C30_Witness ==
    /\ source = FileOf(ExampleHeader, ExampleRecords, << >>)
    /\ pc = "done"
    /\ pos = Len(source.lines)
    /\ Consumed = 10
    /\ location = 11

-----------------------------------------------------------------------------
(* C31: the line number of an error.                                       *)

\* the errors parse_ascii_rethrow and parse_ascii_error make for a line
LineErrors ==
    {"ExpectedMagicNumber", "CouldntParseLine", "UnexpectedPly", "ContradictingFormat",
     "PropertyWithoutElement", "CouldntReadElementLine"}

\* a step that reads a text line: a header line or an ascii data line
ReadsLine ==
    \/ pc \in {"magic", "readlines"}
    \/ Decoding /\ header.encoding = "Ascii" /\ Len(elems) < ElementDefNow.count

\* the line is there, it is taken and the step fails
LineFails == ReadsLine /\ pos < Len(source.lines) /\ pc' = "failed"

C31_Step ==
    LineFails =>
        /\ pos' = pos + 1
        /\ result'.status = "err"
        \* the one failure of the header that is not raised for a line
        /\ result'.msg \in LineErrors \cup {"NoFormatLine"}
        /\ result'.msg = "NoFormatLine" => IsKind(Parsed(pos'), "EndHeader")
        /\ result'.msg \in LineErrors => result'.line = pos'
        /\ pc # "readlines" => result'.msg \in LineErrors

(* C31: in read_ply every error that is raised for a header line which     *)
(* fails the grammar or the logic of the header, and for an ascii data     *)
(* line which fails to decode, carries the number of that line: its        *)
(* position in the input counted from 1, header and data lines together.   *)
C31_ErrorNamesLine == [][C31_Step]_vars

\* "300" on the 6th line of the input, read as a uchar: the error names line 6;
\* a letter on the 6th line, read as a double, gives the same
C31_Witness ==
    /\ given.kind = "field"
    /\ given.extra \in {<< "3", "0", "0" >>, << "x" >>}
    /\ given.header.elements[1].properties[1].data_type[2] \in {"UChar", "Double"}
    /\ Len(source.lines) = 6
    /\ pos = 6
    /\ pc = "failed"
    /\ result = Err("CouldntReadElementLine", 6)

-----------------------------------------------------------------------------
(* C32: read_header returns.                                               *)

InHeader == pc \in {"magic", "readlines"}

\* a read at the end of the input: read_line leaves the text empty, the empty
\* text is no statement, and the function returns an error
C32_Step ==
    (InHeader /\ pos = Len(source.lines)) =>
        /\ ReadLine(source, pos) = << >>
        /\ pos' = pos
        /\ pc' = "failed"
        /\ result' = Err(IF pc = "magic" THEN "ExpectedMagicNumber" ELSE "CouldntParseLine",
                         Len(source.lines) + 1)

(* C32: read_header returns on every finite input.  When the input ends    *)
(* before a line end_header was read, the loop over the header lines does  *)
(* not go on reading at the end of the input: the empty line that is read  *)
(* there is not taken as a statement of the header, and an error is        *)
(* returned.                                                               *)
C32_HeaderTerminates == [][C32_Step]_vars /\ <>(~InHeader)

\* "ply", a format line and an element line, and then the end of the input:
\* the fourth read failed
C32_Witness ==
    /\ source.lines = << MagicLine, FormatAscii, ElementLine(ElementDef(<< "a" >>, 1, << >>)) >>
    /\ pos = 3
    /\ pc = "failed"
    /\ result = Err("CouldntParseLine", 4)

-----------------------------------------------------------------------------
(* C33: the index of a list in a binary file.                              *)

\* the number the bytes of the index were written from
IndexGiven == given.records[1][1][1]

\* read_ply has returned or has unwound
Ended == pc \in {"done", "failed"}

(* C33 as stated: in the binary decode of a List property whose index type *)
(* is Char, Short or Int the number of list elements read is the index     *)
(* value read from the stream; a negative index value never gives a list:  *)
(* the decode ends with an error value, and no list of the length of the   *)
(* wrapped unsigned value is read.                                         *)
C33_Original ==
    (given.kind = "index" /\ Ended) =>
        IF IndexGiven < 0
        THEN /\ pc = "failed"
             /\ result.status = "err"
             /\ payload = EmptyPayload
        ELSE IF IndexGiven <= 2
        THEN /\ pc = "done"
             /\ Get(payload[<< "l" >>][1], << "v" >>)
                   = PropertyList("Int", SubSeq(<< -7, 5 >>, 1, IndexGiven))
        ELSE /\ pc = "failed"
             /\ result = Err("UnexpectedEof", 0)

\* the index byte FF of a list with a char index: no error value is returned,
\* Vec::with_capacity(usize::MAX) panics, after the one byte of the index
C33_Witness ==
    /\ given.kind = "index"
    /\ header.encoding = "BinaryLittleEndian"
    /\ header.elements[1].properties[1].data_type = List("Char", "Int")
    /\ IndexGiven = -1
    /\ source.bytes[1] = 255
    /\ pc = "failed"
    /\ result = Panic("PanicCapacityOverflow")
    /\ elems = << >>
    /\ payload = EmptyPayload

-----------------------------------------------------------------------------
(* C34: the empty name.                                                    *)

\* the Ply when the first loop of make_consistent is done
AfterStepOne == InsertMissing(header.elements, 1, Ply(header, payload, payload_keys))

C34_Step ==
    LET ply == AfterStepOne
    IN  (pc \in {"ply", "normalized"} /\ << >> \in DOMAIN ply.payload) =>
            /\ result'.status = "err"
            /\ result'.msg \in PayloadErrors
            /\ result'.msg = "EmptyElementName" => result'.text = << >>
            \* another error comes first only for a key that has no ElementDef
            /\ result'.msg = "NoDeclaration" => result'.text \in Undeclared(ply) \ {<< >>}
            /\ Undeclared(ply) \subseteq {<< >>} => result'.msg = "EmptyElementName"
            /\ << >> \in DOMAIN payload'

(* C34: make_consistent fails with a ConsistencyError whenever the payload *)
(* has an entry under the empty name when the empty sequences of the first *)
(* step are in it; so a Ply whose header has an ElementDef of the empty    *)
(* name is always rejected.                                                *)
C34_EmptyNameRejected ==
    [][C34_Step /\ ((pc \in {"ply", "normalized"}
                      /\ \E i \in 1..Len(header.elements) : header.elements[i].name = << >>)
                        => result'.status = "err")]_vars

\* an ElementDef of the empty name and a payload without entries: the first
\* step made the entry, the second step rejected it
C34_Witness ==
    /\ pc = "normalized"
    /\ given.ply.header.elements = << ElementDef(<< >>, 0, << >>) >>
    /\ given.ply.payload = EmptyPayload
    /\ payload_keys = << << >> >>
    /\ payload[<< >>] = << >>
    /\ result = ConsistencyError("EmptyElementName", << >>)

====
